---- MODULE Spec2Model ----
(***************************************************************************)
(* A model of DirettaRendererUPnP-X's real-time data path.                 *)
(*                                                                         *)
(* DirettaRingBuffer (src/src/DirettaRingBuffer.h) is a lock-free single-  *)
(* producer / single-consumer byte ring with embedded sample-format        *)
(* conversion.  The ring's fields are the variables below; every public    *)
(* method is an action translated from its body.                           *)
(*                                                                         *)
(* Conventions                                                             *)
(*  - A byte array is a sequence; C index i is sequence index i + 1.       *)
(*  - buffer_ is kept sparse: it maps the indices written since the last   *)
(*    fillWithSilence() to their bytes, every other index of the backing   *)
(*    storage holds the silence byte (see BufAt).  The only place that     *)
(*    changes silenceByte_ (resize) also refills the storage.              *)
(*  - size_t arithmetic wraps modulo SizeModulus.  The code's width is 64  *)
(*    bits; the model uses 30 bits (TLC's integers are 32-bit).  Every     *)
(*    capacity is a power of two dividing SizeModulus, so `& mask_` gives  *)
(*    the same value under either width.                                   *)
(*  - The three staging arrays are written before they are read in every   *)
(*    call that uses them, so they are local values of the call.           *)
(***************************************************************************)
EXTENDS Integers, Sequences, FiniteSets, TLC

(***************************************************************************)
(* Bounds of the model                                                     *)
(***************************************************************************)
\* resize() is called with newSize in 0..MaxNewSize (capacities 2, 4, 8, 16)
MaxNewSize == 9
\* raw push / pop / direct-region requests carry 0..MaxLen bytes
MaxLen == 4
\* the producer's stream is labelled 1..LabelMod, repeating
LabelMod == 9
\* a format-specific push of Spec carries 0..MaxSamples samples (PCM) or
\* 4-byte groups per channel (DSD)
MaxSamples == 2
\* SpecFifo and SpecRoundTrip call resize() with newSize in 0..MaxFifoSize
\* (capacities 2, 4, 8)
MaxFifoSize == 7
\* the round trip keeps at most MaxChunks chunks in the ring
MaxChunks == 3
\* a ring in use has had 0..MaxTotal bytes pushed since its resize
MaxTotal == 31
\* a conversion called on its own gets 4 * (0..MaxUnits) source bytes
MaxUnits == 36
\* planar DSD input has 1..MaxChannels channels
MaxChannels == 3
\* the ring the conversions push into is resized to ConvRingSize bytes
ConvRingSize == 256
\* the two threads run on a ring resized with newSize in 1..MaxConcSize
\* (capacities 2, 4, 8)
MaxConcSize == 8
\* the producer thread commits at most MaxStream bytes in total
MaxStream == 12
\* the alignment runs resize the ring to AlignRingSize bytes
AlignRingSize == 256
\* and make at most MaxAlignPushes calls of push24BitPacked
MaxAlignPushes == 1
\* the hint runs deliver at most MaxHintChunks chunks
MaxHintChunks == 3
\* the audio thread starts an iteration while its clock is below MaxClock
\* microseconds
MaxClock == 50000

(***************************************************************************)
(* Program constants                                                       *)
(***************************************************************************)
STAGING_SIZE == 65536
DEFERRED_TIMEOUT_SAMPLES == 48000

SizeModulus == 2^30

Min(a, b) == IF a < b THEN a ELSE b

\* a byte array built index by index, as a sequence value
Bytes(f) == f \o <<>>

\* F applied to the value of x (x is evaluated once, as a C local is)
With1(x, F(_)) == CHOOSE r \in {F(y) : y \in {x}} : TRUE
With2(x1, x2, F(_, _)) == CHOOSE r \in {F(y1, y2) : y1 \in {x1}, y2 \in {x2}} : TRUE

RECURSIVE BitAnd(_, _)
\* a & b on naturals
BitAnd(a, b) ==
    IF a = 0 \/ b = 0 THEN 0
    ELSE (a % 2) * (b % 2) + 2 * BitAnd(a \div 2, b \div 2)

\* size_t subtraction and addition (unsigned, wrapping)
SubSz(a, b) == (a - b + SizeModulus) % SizeModulus
AddSz(a, b) == (a + b) % SizeModulus

VARIABLES
    \* ---- DirettaRingBuffer fields
    size_, mask_, buffer_, writePos_, readPos_, silenceByte_,
    m_s24PackMode, m_s24Hint, m_s24DetectionConfirmed, m_deferredSampleCount,
    \* ---- what the last call was given and what it returned
    call,       \* [op, len, ch, ret]
    out,        \* the bytes the last pop() copied to dest
    data,       \* the bytes the last push was offered
    region,     \* the region handed out by the last getDirect*Region
    seq,        \* position in the producer's labelled stream (mod LabelMod)
    \* ---- the step a bounded run is at, and the inputs a scenario chose
    phase, script,
    \* ---- round trip: the chunks pushed and not yet popped, oldest first
    chunks,
    \* ---- producer and consumer threads stepping through push() and pop()
    prod, cons, pushed, popped,
    \* ---- a conversion routine called on its own: source, destination, call
    cvSrc, cvDst, cv,
    \* ---- DirettaRenderer: the callback synchronization flags
    m_callbackRunning, m_shutdownRequested,
    \* ---- AudioEngine: m_state and m_currentTrackInfo, and the rest of it
    m_state, m_currentTrackInfo, engine,
    \* ---- the threads of the renderer: the audio thread in audioThreadFunc,
    \* ---- a delivery-callback invocation, the control thread in a handler
    audio, cb, ctl,
    \* ---- UPnPDevice as the controller sees it, and DirettaSync
    upnp, sync

ringVars == <<size_, mask_, buffer_, writePos_, readPos_, silenceByte_,
              m_s24PackMode, m_s24Hint, m_s24DetectionConfirmed,
              m_deferredSampleCount>>
obsVars == <<call, out, data, region>>
threadVars == <<prod, cons, pushed, popped>>
convVars == <<cvSrc, cvDst, cv>>
rendVars == <<m_callbackRunning, m_shutdownRequested, m_state, m_currentTrackInfo,
              engine, audio, cb, ctl, upnp, sync>>

vars == <<ringVars, obsVars, seq, phase, script, chunks, threadVars, convVars,
          rendVars>>

NoRegion == [kind |-> "none", start |-> 0, avail |-> 0]

\* The byte at index i of the backing storage
BufAt(i) == IF i \in DOMAIN buffer_ THEN buffer_[i] ELSE silenceByte_

\* The labelled stream: n bytes starting at stream position start
Lab(x) == (x % LabelMod) + 1
Data(start, n) == Bytes([i \in 1..n |-> Lab(start + i - 1)])

(***************************************************************************)
(* Pure helpers of DirettaRingBuffer                                       *)
(***************************************************************************)
RECURSIVE roundUpPow2Loop(_, _)
roundUpPow2Loop(result, value) ==
    IF result < value THEN roundUpPow2Loop(2 * result, value) ELSE result

\* variant: without the lower limit of 2
roundUpPow2_NoFloor(value) == roundUpPow2Loop(1, value)

roundUpPow2(value) == IF value < 2 THEN 2 ELSE roundUpPow2Loop(1, value)

\* (wp - rp) & mask_
AvailOf(wp, rp) == BitAnd(SubSz(wp, rp), mask_)

\* variant: free space without the reserved slot
FreeOf_NoReserve(wp, rp) == BitAnd(SubSz(rp, wp), mask_)

\* (rp - wp - 1) & mask_
FreeOf(wp, rp) == BitAnd(SubSz(SubSz(rp, wp), 1), mask_)

getAvailable == IF size_ = 0 THEN 0 ELSE AvailOf(writePos_, readPos_)

getFreeSpace == IF size_ = 0 THEN 0 ELSE FreeOf(writePos_, readPos_)

\* memcpy_audio / memcpy_audio_fixed(buf + at, src + from, n): a plain copy.
\* The result is again sparse: an index whose byte is the silence byte is
\* not kept in the map.
memcpy_audio(buf0, at, src0, from, n) ==
    LET copy(buf, src) ==
          LET byte(i) == IF i >= at /\ i < at + n THEN src[from + (i - at) + 1] ELSE buf[i]
              idx == {i \in (DOMAIN buf) \cup (at .. (at + n - 1)) : byte(i) # silenceByte_}
          IN [i \in idx |-> byte(i)]
    IN With2(buf0, src0, copy)

\* n bytes read from the backing storage starting at index at (no wrap)
ReadBuf(at, n) == Bytes([k \in 1..n |-> BufAt(at + k - 1)])

(***************************************************************************)
(* resize / clear                                                          *)
(***************************************************************************)
\* variant: clear() keeps the hint
clear_KeepHint ==
    /\ writePos_' = 0
    /\ readPos_' = 0
    /\ m_s24PackMode' = "Unknown"
    /\ m_s24Hint' = m_s24Hint
    /\ m_s24DetectionConfirmed' = FALSE
    /\ m_deferredSampleCount' = 0

\* clear(): both cursors to zero, S24 state reset, content untouched
clear ==
    /\ writePos_' = 0
    /\ readPos_' = 0
    /\ m_s24PackMode' = "Unknown"
    /\ m_s24Hint' = "Unknown"
    /\ m_s24DetectionConfirmed' = FALSE
    /\ m_deferredSampleCount' = 0

\* resize(newSize, silenceByte): size_, mask_, clear(), fillWithSilence()
resize(newSize, silenceByte) ==
    /\ size_' = roundUpPow2(newSize)
    /\ mask_' = roundUpPow2(newSize) - 1
    /\ silenceByte_' = silenceByte
    /\ clear
    /\ buffer_' = <<>>

(***************************************************************************)
(* Direct write / direct read regions                                      *)
(***************************************************************************)
\* variant: the write region is not cut at the end of the storage
WriteContiguous_NoEnd(wp, rp) == FreeOf(wp, rp)

\* min(toEnd, totalFree) of getDirectWriteRegion
WriteContiguous(wp, rp) == Min(size_ - wp, FreeOf(wp, rp))

getDirectWriteRegionOk(needed) ==
    /\ size_ # 0
    /\ WriteContiguous(writePos_, readPos_) >= needed

\* variant: the read region is not cut at the end of the storage
ReadContiguous_NoEnd(wp, rp) == AvailOf(wp, rp)

\* min(size_ - rp, totalAvail) of getDirectReadRegion
ReadContiguous(wp, rp) == Min(size_ - rp, AvailOf(wp, rp))

getDirectReadRegionOk(needed) ==
    /\ size_ # 0
    /\ AvailOf(writePos_, readPos_) >= needed
    /\ ReadContiguous(writePos_, readPos_) >= needed

(***************************************************************************)
(* push / pop: the result of one call as a record                          *)
(***************************************************************************)
\* variant: the slow path copies len bytes without clamping len to the free space
pushResult_NoClamp(d) ==
    LET len == Len(d)
        wp == writePos_
        firstChunk == Min(len, size_ - wp)
    IN IF size_ = 0 \/ len = 0
       THEN [ret |-> 0, buf |-> buffer_, wp |-> writePos_]
       ELSE [ret |-> len,
             buf |-> LET b1 == memcpy_audio(buffer_, wp, d, 0, firstChunk)
                     IN IF firstChunk < len
                        THEN memcpy_audio(b1, 0, d, firstChunk, Min(len - firstChunk, size_))
                        ELSE b1,
             wp  |-> BitAnd(AddSz(wp, len), mask_)]

\* push(data, len): [ret, buf, wp]
pushResult(d) ==
    LET len == Len(d) IN
    IF getDirectWriteRegionOk(len)
    THEN \* fast path: memcpy into the region, commitDirectWrite(len)
         [ret |-> len,
          buf |-> memcpy_audio(buffer_, writePos_, d, 0, len),
          wp  |-> BitAnd(AddSz(writePos_, len), mask_)]
    ELSE IF size_ = 0
    THEN [ret |-> 0, buf |-> buffer_, wp |-> writePos_]
    ELSE LET wp == writePos_
             rp == readPos_
             free == FreeOf(wp, rp)
             n == IF len > free THEN free ELSE len
             firstChunk == Min(n, size_ - wp)
         IN IF n = 0
            THEN [ret |-> 0, buf |-> buffer_, wp |-> writePos_]
            ELSE [ret |-> n,
                  buf |-> LET b1 == memcpy_audio(buffer_, wp, d, 0, firstChunk)
                          IN IF firstChunk < n
                             THEN memcpy_audio(b1, 0, d, firstChunk, n - firstChunk)
                             ELSE b1,
                  wp  |-> BitAnd(AddSz(wp, n), mask_)]

\* variant: pop copies one chunk from rp on, without the wrapped second chunk
popResult_NoWrap(len) ==
    LET avail == AvailOf(writePos_, readPos_)
        n == IF len > avail THEN avail ELSE len
    IN IF size_ = 0 \/ n = 0
       THEN [ret |-> 0, dest |-> <<>>, rp |-> readPos_]
       ELSE [ret |-> n, dest |-> ReadBuf(readPos_, n),
             rp |-> BitAnd(AddSz(readPos_, n), mask_)]

\* pop(dest, len): [ret, dest, rp]
popResult(len) ==
    IF size_ = 0
    THEN [ret |-> 0, dest |-> <<>>, rp |-> readPos_]
    ELSE LET wp == writePos_
             rp == readPos_
             avail == AvailOf(wp, rp)
             n == IF len > avail THEN avail ELSE len
             firstChunk == Min(n, size_ - rp)
         IN IF n = 0
            THEN [ret |-> 0, dest |-> <<>>, rp |-> readPos_]
            ELSE [ret |-> n,
                  dest |-> IF firstChunk < n
                           THEN ReadBuf(rp, firstChunk) \o ReadBuf(0, n - firstChunk)
                           ELSE ReadBuf(rp, firstChunk),
                  rp |-> BitAnd(AddSz(rp, n), mask_)]

(***************************************************************************)
(* AVX2 intrinsics the conversions use.  A 256-bit register is a sequence  *)
(* of 32 bytes (byte k of the register is element k + 1); a 128-bit one    *)
(* has 16.  A shuffle-mask byte of -1 has its top bit set.  An intrinsic   *)
(* takes its operands by value (With1, With2).                             *)
(***************************************************************************)
\* _mm256_loadu_si256(p + off)
mm256_loadu(p, off) == Bytes([k \in 1..32 |-> p[off + k]])

\* _mm256_shuffle_epi8(a, mask): within each 128-bit lane, result byte i is
\* zero when mask byte i has its top bit set, else lane byte (mask & 0x0F)
mm256_shuffle_epi8(a0, mask0) ==
    LET f(a, mask) ==
          [i \in 1..32 |->
              IF mask[i] < 0 \/ mask[i] >= 128 THEN 0
              ELSE a[((i - 1) \div 16) * 16 + (mask[i] % 16) + 1]]
    IN With2(a0, mask0, f)

\* _mm256_castsi256_si128(v) and _mm256_extracti128_si256(v, 1)
mm256_castsi256_si128(v) == SubSeq(v, 1, 16)
mm256_extracti128_hi(v) == SubSeq(v, 17, 32)

\* _mm256_unpacklo_epiN / _mm256_unpackhi_epiN with elements of w bytes
\* (w = 2: epi16, w = 4: epi32): within each lane, interleave the elements
\* of the low (half = 0) or high (half = 1) 64 bits of a and b
mm256_unpack(a0, b0, w, half) ==
    LET f(a, b) ==
          [i \in 1..32 |->
              LET lane == (i - 1) \div 16
                  k == (i - 1) % 16            \* byte within the lane
                  e == k \div w                \* element within the lane's result
                  from == lane * 16 + half * 8 + (e \div 2) * w + (k % w) + 1
              IN IF e % 2 = 0 THEN a[from] ELSE b[from]]
    IN With2(a0, b0, f)

mm256_unpacklo_epi16(a, b) == mm256_unpack(a, b, 2, 0)
mm256_unpackhi_epi16(a, b) == mm256_unpack(a, b, 2, 1)
mm256_unpacklo_epi32(a, b) == mm256_unpack(a, b, 4, 0)
mm256_unpackhi_epi32(a, b) == mm256_unpack(a, b, 4, 1)

\* one 128-bit half chosen by a 4-bit selector of _mm256_permute2x128_si256
Sel128(a, b, s) ==
    IF s = 0 THEN SubSeq(a, 1, 16)
    ELSE IF s = 1 THEN SubSeq(a, 17, 32)
    ELSE IF s = 2 THEN SubSeq(b, 1, 16)
    ELSE SubSeq(b, 17, 32)

\* _mm256_permute2x128_si256(a, b, imm) for imm = 0x20 and 0x31
mm256_permute2x128(a0, b0, imm) ==
    LET f(a, b) == Sel128(a, b, imm % 16) \o Sel128(a, b, imm \div 16)
    IN With2(a0, b0, f)

\* _mm256_srli_epi16(x, 4) and _mm256_slli_epi16(x, 4): each 16-bit word
\* (little-endian byte pair) shifted as a whole
Word16(x, i) == x[2 * i - 1] + 256 * x[2 * i]
WordByte(w, i) == IF i % 2 = 1 THEN w % 256 ELSE w \div 256
mm256_srli_epi16_4(x0) ==
    LET f(x) == [i \in 1..32 |-> WordByte(Word16(x, (i + 1) \div 2) \div 16, i)]
    IN With1(x0, f)
mm256_slli_epi16_4(x0) ==
    LET f(x) == [i \in 1..32 |-> WordByte((Word16(x, (i + 1) \div 2) * 16) % 65536, i)]
    IN With1(x0, f)

mm256_and(a0, b0) ==
    LET f(a, b) == [i \in 1..32 |-> BitAnd(a[i], b[i])] IN With2(a0, b0, f)
\* _mm256_or_si256 (x | y = x + y - (x & y))
mm256_or(a0, b0) ==
    LET f(a, b) == [i \in 1..32 |-> a[i] + b[i] - BitAnd(a[i], b[i])] IN With2(a0, b0, f)
mm256_set1_epi8(v) == [i \in 1..32 |-> v]

(***************************************************************************)
(* Conversions.  Each returns the bytes written to dst; outputBytes is the *)
(* length of the result.  The vectorized loop's iterations are indexed by  *)
(* v (i = 8v, 16v or 32v); the scalar tail handles the rest.               *)
(***************************************************************************)
shuffle_mask_24 ==
    <<0, 1, 2, 4, 5, 6, 8, 9, 10, 12, 13, 14, -1, -1, -1, -1,
      0, 1, 2, 4, 5, 6, 8, 9, 10, 12, 13, 14, -1, -1, -1, -1>>

shuffle_mask_24_shifted ==
    <<1, 2, 3, 5, 6, 7, 9, 10, 11, 13, 14, 15, -1, -1, -1, -1,
      1, 2, 3, 5, 6, 7, 9, 10, 11, 13, 14, 15, -1, -1, -1, -1>>

\* the 24 bytes one vectorized iteration of a 24-bit repack stores:
\* _mm_storel_epi64 (8 bytes) and the 4-byte tail, for lo and then hi
Pack24Iteration(p, i, mask) ==
    LET stores(shuffled) ==
          LET lo == mm256_castsi256_si128(shuffled)
              hi == mm256_extracti128_hi(shuffled)
          IN SubSeq(lo, 1, 8) \o SubSeq(lo, 9, 12) \o SubSeq(hi, 1, 8) \o SubSeq(hi, 9, 12)
    IN With1(mm256_shuffle_epi8(mm256_loadu(p, i * 4), mask), stores)

\* shared body of convert24BitPacked_AVX2 (first = 0) and
\* convert24BitPackedShifted_AVX2 (first = 1)
Pack24(p, numSamples, mask, first) ==
    LET nv == numSamples \div 8
        result(vec) ==
          Bytes([j \in 1..(3 * numSamples) |->
                   IF j <= 24 * nv
                   THEN vec[((j - 1) \div 24) + 1][((j - 1) % 24) + 1]
                   ELSE p[((j - 1) \div 3) * 4 + first + ((j - 1) % 3) + 1]])
    IN With1(Bytes([v \in 1..nv |-> Pack24Iteration(p, 8 * (v - 1), mask)]), result)

convert24BitPacked_AVX2(p, numSamples) ==
    Pack24(p, numSamples, shuffle_mask_24, 0)

\* variant: the scalar tail of the shifted conversion reads from byte 0
convert24BitPackedShifted_TailLow(p, numSamples) ==
    Pack24(p, numSamples, shuffle_mask_24_shifted, 0)

convert24BitPackedShifted_AVX2(p, numSamples) ==
    Pack24(p, numSamples, shuffle_mask_24_shifted, 1)

\* variant: the unpacked registers stored without the cross-lane permute
Up16Iteration_NoPermute(p, i) ==
    LET in == mm256_loadu(p, i * 2)
        zero == mm256_set1_epi8(0)
    IN mm256_unpacklo_epi16(zero, in) \o mm256_unpackhi_epi16(zero, in)

\* the 64 bytes one vectorized iteration of convert16To32_AVX2 stores
Up16Iteration(p, i) ==
    LET stores(lo, hi) ==
          mm256_permute2x128(lo, hi, 32) \o mm256_permute2x128(lo, hi, 49)
        unpack(in, zero) ==
          With2(mm256_unpacklo_epi16(zero, in), mm256_unpackhi_epi16(zero, in), stores)
    IN With2(mm256_loadu(p, i * 2), mm256_set1_epi8(0), unpack)

convert16To32_AVX2(p, numSamples) ==
    LET nv == numSamples \div 16
        result(vec) ==
          Bytes([j \in 1..(4 * numSamples) |->
                   IF j <= 64 * nv
                   THEN vec[((j - 1) \div 64) + 1][((j - 1) % 64) + 1]
                   ELSE IF (j - 1) % 4 < 2 THEN 0
                        ELSE p[((j - 1) \div 4) * 2 + (((j - 1) % 4) - 2) + 1]])
    IN With1(Bytes([v \in 1..nv |-> Up16Iteration(p, 16 * (v - 1))]), result)

nibble_reverse ==
    <<0, 8, 4, 12, 2, 10, 6, 14, 1, 9, 5, 13, 3, 11, 7, 15,
      0, 8, 4, 12, 2, 10, 6, 14, 1, 9, 5, 13, 3, 11, 7, 15>>

simd_bit_reverse(x) ==
    LET mask_0f == mm256_set1_epi8(15)
        lo_nibbles == mm256_and(x, mask_0f)
        hi_nibbles == mm256_and(mm256_srli_epi16_4(x), mask_0f)
        lo_reversed == mm256_shuffle_epi8(nibble_reverse, lo_nibbles)
        hi_reversed == mm256_shuffle_epi8(nibble_reverse, hi_nibbles)
    IN mm256_or(mm256_slli_epi16_4(lo_reversed), hi_reversed)

byteswap_mask ==
    <<3, 2, 1, 0, 7, 6, 5, 4, 11, 10, 9, 8, 15, 14, 13, 12,
      3, 2, 1, 0, 7, 6, 5, 4, 11, 10, 9, 8, 15, 14, 13, 12>>

\* The caller's 256-entry table; "none" is nullptr.  The table the adapter
\* passes reverses the bits of each byte.
RECURSIVE ReverseBits(_, _)
ReverseBits(b, n) ==
    IF n = 0 THEN 0 ELSE (b % 2) * 2^(n - 1) + ReverseBits(b \div 2, n - 1)

TableLookup(table, b) == IF table = "none" THEN b ELSE ReverseBits(b, 8)

convertDSDPlanar_Scalar(p, totalInputBytes, numChannels, table, needByteSwap) ==
    LET bytesPerChannel == totalInputBytes \div numChannels
        groups == (bytesPerChannel + 3) \div 4     \* iterations of the i loop
        group(i, ch, j) ==
            IF i + j < bytesPerChannel
            THEN TableLookup(table, p[ch * bytesPerChannel + i + j + 1])
            ELSE 0
    IN Bytes([k \in 1..(groups * numChannels * 4) |->
                LET g == (k - 1) \div (4 * numChannels)
                    ch == ((k - 1) % (4 * numChannels)) \div 4
                    j == (k - 1) % 4
                IN IF needByteSwap THEN group(4 * g, ch, 3 - j) ELSE group(4 * g, ch, j)])

\* variant: the stereo iteration interleaving 16-bit instead of 32-bit units
DSDStereoIteration_Epi16(p, bytesPerChannel, i, table, needByteSwap) ==
    LET left == mm256_loadu(p, i)
        right == mm256_loadu(p, bytesPerChannel + i)
        lo == mm256_unpacklo_epi16(left, right)
        hi == mm256_unpackhi_epi16(left, right)
    IN mm256_permute2x128(lo, hi, 32) \o mm256_permute2x128(lo, hi, 49)

\* the 64 bytes one vectorized iteration of the stereo path stores
DSDStereoIteration(p, bytesPerChannel, i, table, needByteSwap) ==
    LET stores(interleaved_lo, interleaved_hi) ==
          mm256_permute2x128(interleaved_lo, interleaved_hi, 32)
          \o mm256_permute2x128(interleaved_lo, interleaved_hi, 49)
        swap(x) == IF needByteSwap THEN mm256_shuffle_epi8(x, byteswap_mask) ELSE x
        interleave(left, right) ==
          With2(swap(mm256_unpacklo_epi32(left, right)),
                swap(mm256_unpackhi_epi32(left, right)), stores)
        reverse(x) == IF table # "none" THEN simd_bit_reverse(x) ELSE x
    IN With2(reverse(mm256_loadu(p, i)),
             reverse(mm256_loadu(p, bytesPerChannel + i)), interleave)

convertDSDPlanar_AVX2(p, totalInputBytes, numChannels, table, needByteSwap) ==
    LET bytesPerChannel == totalInputBytes \div numChannels
    IN IF numChannels = 2
       THEN LET nv == bytesPerChannel \div 32
                nt == (bytesPerChannel - 32 * nv) \div 4   \* tail groups of 4
                result(vec) ==
                  Bytes([k \in 1..(64 * nv + 8 * nt) |->
                      IF k <= 64 * nv
                      THEN vec[((k - 1) \div 64) + 1][((k - 1) % 64) + 1]
                      ELSE LET t == (k - 1 - 64 * nv) \div 8     \* tail group
                               r == (k - 1 - 64 * nv) % 8
                               i == 32 * nv + 4 * t
                           IN IF r < 4
                              THEN TableLookup(table, p[i + r + 1])
                              ELSE TableLookup(table, p[bytesPerChannel + i + (r - 4) + 1])])
            IN With1(Bytes([v \in 1..nv |->
                               DSDStereoIteration(p, bytesPerChannel, 32 * (v - 1),
                                                  table, needByteSwap)]),
                     result)
       ELSE convertDSDPlanar_Scalar(p, totalInputBytes, numChannels, table, needByteSwap)

s24Vars == <<m_s24PackMode, m_s24Hint, m_s24DetectionConfirmed, m_deferredSampleCount>>

(***************************************************************************)
(* Format-specific pushes                                                  *)
(***************************************************************************)
\* writeToRing(staged, len): [len, buf, wp]
writeToRing(staged0) ==
    LET size == size_                     \* buffer_.size()
        writePos == writePos_
        readPos == readPos_
        available == IF readPos > writePos
                     THEN readPos - writePos - 1
                     ELSE size - writePos + readPos - 1
        write(staged) ==
          LET len0 == Len(staged)
              len == IF len0 > available THEN available ELSE len0
              firstChunk == Min(len, size - writePos)
              secondChunk == len - firstChunk
          IN IF size = 0 \/ len0 = 0 \/ len = 0
             THEN [len |-> 0, buf |-> buffer_, wp |-> writePos_]
             ELSE [len |-> len,
                   buf |-> LET b1 == IF firstChunk > 0
                                     THEN memcpy_audio(buffer_, writePos, staged, 0, firstChunk)
                                     ELSE buffer_
                           IN IF secondChunk > 0
                              THEN memcpy_audio(b1, 0, staged, firstChunk, secondChunk)
                              ELSE b1,
                   wp |-> BitAnd(AddSz(writePos, len), mask_)]
    IN With1(staged0, write)

\* variant: an ambiguous window is classified MsbAligned
detectS24PackMode_AmbiguousMsb(d, numSamples) ==
    LET checkSamples == Min(numSamples, 32)
        allZeroLSB == \A i \in 0..(checkSamples - 1) : d[i * 4 + 1] = 0
        allZeroMSB == \A i \in 0..(checkSamples - 1) : d[i * 4 + 3 + 1] = 0
    IN IF ~allZeroLSB /\ allZeroMSB THEN "LsbAligned"
       ELSE IF allZeroLSB /\ allZeroMSB THEN "Deferred"
       ELSE "MsbAligned"

\* detectS24PackMode(data, numSamples)
detectS24PackMode(d, numSamples) ==
    LET checkSamples == Min(numSamples, 32)
        allZeroLSB == \A i \in 0..(checkSamples - 1) : d[i * 4 + 1] = 0
        allZeroMSB == \A i \in 0..(checkSamples - 1) : d[i * 4 + 3 + 1] = 0
    IN IF ~allZeroLSB /\ allZeroMSB THEN "LsbAligned"
       ELSE IF allZeroLSB /\ ~allZeroMSB THEN "MsbAligned"
       ELSE IF allZeroLSB /\ allZeroMSB THEN "Deferred"
       ELSE "LsbAligned"

\* variant: the sample count clamped to the staging buffer only
push24Samples_NoFreeClamp(inputSize) ==
    LET numSamples == inputSize \div 4
        maxSamples == STAGING_SIZE \div 3
    IN IF numSamples > maxSamples THEN maxSamples ELSE numSamples

\* the sample count push24BitPacked converts: inputSize / 4 clamped to the
\* staging buffer and to the free space
push24Samples(inputSize) ==
    LET numSamples == inputSize \div 4
        maxSamples == STAGING_SIZE \div 3
        maxSamplesByFree == getFreeSpace \div 3
        n1 == IF numSamples > maxSamples THEN maxSamples ELSE numSamples
    IN IF n1 > maxSamplesByFree THEN maxSamplesByFree ELSE n1

\* variant: the deferred timeout resolves to LsbAligned whatever the hint
s24Detection_TimeoutLsb(d, numSamples) ==
    IF m_s24PackMode = "Unknown" \/ m_s24PackMode = "Deferred"
       \/ (m_s24PackMode = m_s24Hint /\ ~m_s24DetectionConfirmed)
    THEN LET detected == detectS24PackMode(d, numSamples)
             cnt == m_deferredSampleCount + numSamples
         IN IF detected # "Deferred"
            THEN [mode |-> detected, confirmed |-> TRUE, deferred |-> 0]
            ELSE IF cnt > DEFERRED_TIMEOUT_SAMPLES
            THEN [mode |-> "LsbAligned", confirmed |-> TRUE, deferred |-> cnt]
            ELSE [mode |-> m_s24PackMode,
                  confirmed |-> m_s24DetectionConfirmed, deferred |-> cnt]
    ELSE [mode |-> m_s24PackMode, confirmed |-> m_s24DetectionConfirmed,
          deferred |-> m_deferredSampleCount]

\* variant: sample inspection runs on every call, confirmed or not
s24Detection_EveryCall(d, numSamples) ==
    LET detected == detectS24PackMode(d, numSamples)
        cnt == m_deferredSampleCount + numSamples
    IN IF detected # "Deferred"
       THEN [mode |-> detected, confirmed |-> TRUE, deferred |-> 0]
       ELSE IF cnt > DEFERRED_TIMEOUT_SAMPLES
       THEN [mode |-> IF m_s24Hint # "Unknown" THEN m_s24Hint ELSE "LsbAligned",
             confirmed |-> TRUE, deferred |-> cnt]
       ELSE [mode |-> m_s24PackMode,
             confirmed |-> m_s24DetectionConfirmed, deferred |-> cnt]

\* the hybrid detection step of push24BitPacked: [mode, confirmed, deferred]
s24Detection(d, numSamples) ==
    IF m_s24PackMode = "Unknown" \/ m_s24PackMode = "Deferred"
       \/ (m_s24PackMode = m_s24Hint /\ ~m_s24DetectionConfirmed)
    THEN LET detected == detectS24PackMode(d, numSamples)
         IN IF detected # "Deferred"
            THEN [mode |-> detected, confirmed |-> TRUE, deferred |-> 0]
            ELSE LET cnt == m_deferredSampleCount + numSamples
                 IN IF cnt > DEFERRED_TIMEOUT_SAMPLES
                    THEN [mode |-> IF m_s24Hint # "Unknown" THEN m_s24Hint ELSE "LsbAligned",
                          confirmed |-> TRUE, deferred |-> cnt]
                    ELSE [mode |-> m_s24PackMode,
                          confirmed |-> m_s24DetectionConfirmed, deferred |-> cnt]
    ELSE [mode |-> m_s24PackMode, confirmed |-> m_s24DetectionConfirmed,
          deferred |-> m_deferredSampleCount]

\* effectiveMode of push24BitPacked for a pack mode and a hint
effectiveMode(mode, hint) ==
    IF mode = "Deferred" \/ mode = "Unknown"
    THEN (IF hint # "Unknown" THEN hint ELSE "LsbAligned")
    ELSE mode

\* push24BitPacked(data, inputSize): [ret, buf, wp, mode, confirmed, deferred]
push24BitPacked(d) ==
    LET same == [ret |-> 0, buf |-> buffer_, wp |-> writePos_,
                 mode |-> m_s24PackMode, confirmed |-> m_s24DetectionConfirmed,
                 deferred |-> m_deferredSampleCount]
        convert(numSamples, det) ==
            LET staged == IF effectiveMode(det.mode, m_s24Hint) = "MsbAligned"
                          THEN convert24BitPackedShifted_AVX2(d, numSamples)
                          ELSE convert24BitPacked_AVX2(d, numSamples)
                result(w) ==
                  LET samplesWritten == w.len \div 3
                  IN [ret |-> samplesWritten * 4, buf |-> w.buf, wp |-> w.wp,
                      mode |-> det.mode, confirmed |-> det.confirmed,
                      deferred |-> det.deferred]
            IN With1(writeToRing(staged), result)
        body(numSamples) ==
            IF size_ = 0 \/ Len(d) \div 4 = 0 \/ numSamples = 0
            THEN same
            ELSE With2(numSamples, s24Detection(d, numSamples), convert)
    IN With1(push24Samples(Len(d)), body)

\* the sample count push16To32 converts
push16Samples(inputSize) ==
    LET numSamples == inputSize \div 2
        maxSamples == STAGING_SIZE \div 4
        maxSamplesByFree == getFreeSpace \div 4
        n1 == IF numSamples > maxSamples THEN maxSamples ELSE numSamples
    IN IF n1 > maxSamplesByFree THEN maxSamplesByFree ELSE n1

\* push16To32(data, inputSize): [ret, buf, wp]
push16To32(d) ==
    LET result(w) ==
          LET samplesWritten == w.len \div 4
          IN [ret |-> samplesWritten * 2, buf |-> w.buf, wp |-> w.wp]
        body(numSamples) ==
          IF size_ = 0 \/ Len(d) \div 2 = 0 \/ numSamples = 0
          THEN [ret |-> 0, buf |-> buffer_, wp |-> writePos_]
          ELSE With1(writeToRing(convert16To32_AVX2(d, numSamples)), result)
    IN With1(push16Samples(Len(d)), body)

\* usableInput of pushDSDPlanar
dsdUsableInput(inputSize, numChannels) ==
    LET m1 == IF inputSize > STAGING_SIZE THEN STAGING_SIZE ELSE inputSize
        free == getFreeSpace
        maxBytes == IF m1 > free THEN free ELSE m1
        bytesPerChannel == maxBytes \div numChannels
        completeGroups == bytesPerChannel \div 4
    IN completeGroups * 4 * numChannels

\* pushDSDPlanar(data, inputSize, numChannels, bitReverseTable, byteSwap)
pushDSDPlanar(d, numChannels, table, byteSwap) ==
    LET result(w) == [ret |-> w.len, buf |-> w.buf, wp |-> w.wp]
        body(usableInput) ==
          IF usableInput = 0
          THEN [ret |-> 0, buf |-> buffer_, wp |-> writePos_]
          ELSE With1(writeToRing(convertDSDPlanar_AVX2(d, usableInput, numChannels,
                                                       table, byteSwap)), result)
    IN IF size_ = 0 \/ numChannels = 0
       THEN [ret |-> 0, buf |-> buffer_, wp |-> writePos_]
       ELSE With1(dsdUsableInput(Len(d), numChannels), body)

(***************************************************************************)
(* Actions: one per public method.  Each sets the ring's fields as the     *)
(* method does and records the call (call, out, data, region).  The        *)
(* variables outside ringVars and obsVars belong to the specifications.    *)
(***************************************************************************)
Called(op, len, ch, ret) == [op |-> op, len |-> len, ch |-> ch, ret |-> ret]

Resize(newSize, silenceByte) ==
    /\ resize(newSize, silenceByte)
    /\ call' = Called("resize", newSize, silenceByte, 0)
    /\ out' = <<>>
    /\ data' = <<>>
    /\ region' = NoRegion

Clear ==
    /\ clear
    /\ UNCHANGED <<size_, mask_, buffer_, silenceByte_>>
    /\ call' = Called("clear", 0, 0, 0)
    /\ out' = <<>>
    /\ data' = <<>>
    /\ region' = NoRegion

Push(d) ==
    \E r \in {pushResult(d)} :
    /\ buffer_' = r.buf
    /\ writePos_' = r.wp
    /\ UNCHANGED <<size_, mask_, readPos_, silenceByte_, s24Vars>>
    /\ call' = Called("push", Len(d), 0, r.ret)
    /\ out' = <<>>
    /\ data' = d
    /\ region' = NoRegion

Pop(len) ==
    \E r \in {popResult(len)} :
    /\ readPos_' = r.rp
    /\ UNCHANGED <<size_, mask_, buffer_, writePos_, silenceByte_, s24Vars>>
    /\ call' = Called("pop", len, 0, r.ret)
    /\ out' = r.dest
    /\ data' = <<>>
    /\ region' = NoRegion

Push24BitPacked(d) ==
    \E r \in {push24BitPacked(d)} :
    /\ buffer_' = r.buf
    /\ writePos_' = r.wp
    /\ m_s24PackMode' = r.mode
    /\ m_s24DetectionConfirmed' = r.confirmed
    /\ m_deferredSampleCount' = r.deferred
    /\ UNCHANGED <<size_, mask_, readPos_, silenceByte_, m_s24Hint>>
    /\ call' = Called("push24BitPacked", Len(d), 0, r.ret)
    /\ out' = <<>>
    /\ data' = d
    /\ region' = NoRegion

Push16To32(d) ==
    \E r \in {push16To32(d)} :
    /\ buffer_' = r.buf
    /\ writePos_' = r.wp
    /\ UNCHANGED <<size_, mask_, readPos_, silenceByte_, s24Vars>>
    /\ call' = Called("push16To32", Len(d), 0, r.ret)
    /\ out' = <<>>
    /\ data' = d
    /\ region' = NoRegion

PushDSDPlanar(d, numChannels, table, byteSwap) ==
    \E r \in {pushDSDPlanar(d, numChannels, table, byteSwap)} :
    /\ buffer_' = r.buf
    /\ writePos_' = r.wp
    /\ UNCHANGED <<size_, mask_, readPos_, silenceByte_, s24Vars>>
    /\ call' = Called("pushDSDPlanar", Len(d), numChannels, r.ret)
    /\ out' = <<>>
    /\ data' = d
    /\ region' = NoRegion

\* getDirectWriteRegion(needed, region, available): moves nothing
GetDirectWriteRegion(needed) ==
    /\ UNCHANGED ringVars
    /\ call' = Called("getDirectWriteRegion", needed, 0,
                      IF getDirectWriteRegionOk(needed) THEN 1 ELSE 0)
    /\ region' = IF getDirectWriteRegionOk(needed)
                 THEN [kind |-> "write", start |-> writePos_,
                       avail |-> WriteContiguous(writePos_, readPos_)]
                 ELSE NoRegion
    /\ out' = <<>>
    /\ data' = <<>>

\* The producer fills the region it was handed with d (at most the reported
\* length) and calls commitDirectWrite(written)
CommitDirectWrite(d) ==
    /\ region.kind = "write"
    /\ Len(d) <= region.avail
    /\ buffer_' = memcpy_audio(buffer_, region.start, d, 0, Len(d))
    /\ writePos_' = BitAnd(AddSz(writePos_, Len(d)), mask_)
    /\ UNCHANGED <<size_, mask_, readPos_, silenceByte_, s24Vars>>
    /\ call' = Called("commitDirectWrite", Len(d), 0, 0)
    /\ out' = <<>>
    /\ data' = d
    /\ region' = NoRegion

\* getDirectReadRegion(needed, region, available): moves nothing; out is
\* what the consumer sees through the region
GetDirectReadRegion(needed) ==
    /\ UNCHANGED ringVars
    /\ call' = Called("getDirectReadRegion", needed, 0,
                      IF getDirectReadRegionOk(needed) THEN 1 ELSE 0)
    /\ region' = IF getDirectReadRegionOk(needed)
                 THEN [kind |-> "read", start |-> readPos_,
                       avail |-> ReadContiguous(writePos_, readPos_)]
                 ELSE NoRegion
    /\ out' = IF getDirectReadRegionOk(needed)
              THEN ReadBuf(readPos_, ReadContiguous(writePos_, readPos_))
              ELSE <<>>
    /\ data' = <<>>

\* variant: the advanced read cursor is stored without the mask
AdvanceReadPos_NoMask(bytes) ==
    /\ bytes <= getAvailable
    /\ readPos_' = AddSz(readPos_, bytes)
    /\ UNCHANGED <<size_, mask_, buffer_, writePos_, silenceByte_, s24Vars>>
    /\ call' = Called("advanceReadPos", bytes, 0, 0)
    /\ out' = <<>>
    /\ data' = <<>>
    /\ region' = NoRegion

\* advanceReadPos(bytes); the consumer advances by no more than is unread
AdvanceReadPos(bytes) ==
    /\ bytes <= getAvailable
    /\ readPos_' = BitAnd(AddSz(readPos_, bytes), mask_)
    /\ UNCHANGED <<size_, mask_, buffer_, writePos_, silenceByte_, s24Vars>>
    /\ call' = Called("advanceReadPos", bytes, 0, 0)
    /\ out' = <<>>
    /\ data' = <<>>
    /\ region' = NoRegion

\* setS24PackModeHint(hint)
SetS24PackModeHint(hint) ==
    /\ m_s24Hint' = hint
    /\ m_s24DetectionConfirmed' = FALSE
    /\ m_s24PackMode' = IF m_s24PackMode = "Unknown" \/ m_s24PackMode = "Deferred"
                        THEN hint ELSE m_s24PackMode
    /\ UNCHANGED <<size_, mask_, buffer_, writePos_, readPos_, silenceByte_,
                   m_deferredSampleCount>>
    /\ call' = Called("setS24PackModeHint", 0, 0, 0)
    /\ out' = <<>>
    /\ data' = <<>>
    /\ region' = NoRegion

(***************************************************************************)
(* The states after construction of each part                              *)
(***************************************************************************)
InitRing ==
    /\ size_ = 0
    /\ mask_ = 0
    /\ buffer_ = <<>>
    /\ writePos_ = 0
    /\ readPos_ = 0
    /\ silenceByte_ = 0
    /\ m_s24PackMode = "Unknown"
    /\ m_s24Hint = "Unknown"
    /\ m_s24DetectionConfirmed = FALSE
    /\ m_deferredSampleCount = 0

InitObs ==
    /\ call = Called("new", 0, 0, 0)
    /\ out = <<>>
    /\ data = <<>>
    /\ region = NoRegion

NoScript == [size |-> 0, fill |-> 0, drain |-> 0, op |-> "none", len |-> 0, ch |-> 0, ret |-> 0]
NoCall == [op |-> "none", n |-> 0, ch |-> 0, table |-> "none", swap |-> FALSE]
\* a thread outside any call: its position, the len argument, the loaded
\* cursors, the clamped length, the bytes copied so far, and its user buffer
ThreadIdle == [pc |-> "idle", len |-> 0, wp |-> 0, rp |-> 0, n |-> 0, i |-> 0, bytes |-> <<>>]

InitThreads ==
    /\ prod = ThreadIdle
    /\ cons = ThreadIdle
    /\ pushed = <<>>
    /\ popped = <<>>

InitConvVars ==
    /\ cvSrc = <<>>
    /\ cvDst = <<>>
    /\ cv = NoCall

\* the renderer before start(): flags false, engine stopped with no track,
\* no thread inside a loop, callback or handler
NoTrack == [sampleRate |-> 0, isDSD |-> FALSE]
\* the audio thread before its first iteration; state and isDSD are what
\* the loop last read; ran, reselected, prevWake, after and slept tell what
\* the iteration that has just ended did
AudioIdle == [pc |-> "loop", sampleRate |-> 0, lastSampleRate |-> 0,
              currentChunk |-> 0, arg |-> 0, period |-> 0, now |-> 0,
              nextWake |-> 0, state |-> "STOPPED", isDSD |-> FALSE,
              ran |-> FALSE, reselected |-> FALSE, prevWake |-> 0,
              after |-> 0, slept |-> FALSE]
CbIdle == [pc |-> "idle", result |-> "none"]
CtlIdle == [pc |-> "idle", op |-> "none"]
NoEngine == [pc |-> "idle"]
NoUpnp == [transportState |-> "STOPPED", events |-> <<>>]
NoSync == [pc |-> "idle"]

InitRend ==
    /\ m_callbackRunning = FALSE
    /\ m_shutdownRequested = FALSE
    /\ m_state = "STOPPED"
    /\ m_currentTrackInfo = NoTrack
    /\ engine = NoEngine
    /\ audio = AudioIdle
    /\ cb = CbIdle
    /\ ctl = CtlIdle
    /\ upnp = NoUpnp
    /\ sync = NoSync

(***************************************************************************)
(* Input data                                                              *)
(***************************************************************************)
\* Source patterns: "count0"/"count128" number the bytes (so that every
\* byte of a source of up to 256 bytes differs), "aa55" is a first half of
\* 0xAA and a second half of 0x55, "lsb" has byte 3 of every sample zero,
\* "msb" byte 0 zero, "zero" is silence
Patterns == {"count0", "count128", "aa55", "lsb", "msb", "zero"}

PatternByte(pat, i, len) ==
    IF pat = "count0" THEN i % 256
    ELSE IF pat = "count128" THEN (i + 128) % 256
    ELSE IF pat = "aa55" THEN (IF 2 * i < len THEN 170 ELSE 85)
    ELSE IF pat = "lsb" THEN (IF i % 4 = 3 THEN 0 ELSE (i % 255) + 1)
    ELSE IF pat = "msb" THEN (IF i % 4 = 0 THEN 0 ELSE (i % 255) + 1)
    ELSE 0

Pattern(pat, len) == Bytes([i \in 1..len |-> PatternByte(pat, i - 1, len)])

\* the silence bytes resize() is called with (PCM 0x00, DSD 0x69)
SilenceBytes == {0, 105}

(***************************************************************************)
(* The ring in use: resize(newSize, silenceByte), then setS24PackModeHint  *)
(* if hint is not "Unknown", then raw pushes of the first total bytes of   *)
(* the labelled stream and pops of all but the last unread of them.        *)
(* Index i of the storage holds the last stream byte written there.        *)
(***************************************************************************)
InUse(newSize, silenceByte, hint, total, unread) ==
    LET cap == roundUpPow2(newSize) IN
    /\ size_ = cap
    /\ mask_ = cap - 1
    /\ silenceByte_ = silenceByte
    /\ buffer_ = [i \in {j \in 0..(cap - 1) : j < total} |->
                      Lab(i + cap * ((total - 1 - i) \div cap))]
    /\ writePos_ = total % cap
    /\ readPos_ = (total - unread) % cap
    /\ m_s24PackMode = hint
    /\ m_s24Hint = hint
    /\ m_s24DetectionConfirmed = FALSE
    /\ m_deferredSampleCount = 0
    /\ seq = total % LabelMod

(***************************************************************************)
(* Spec: one call of any public method on a ring in use (a direct-region   *)
(* query may be followed by its commit / advance).                         *)
(***************************************************************************)
Init ==
    /\ InitObs /\ InitThreads /\ InitConvVars /\ InitRend
    /\ phase = "use"
    /\ script = NoScript
    /\ chunks = <<>>
    /\ \/ InitRing /\ seq = 0
       \/ \E n \in 0..MaxNewSize, sb \in SilenceBytes,
             h \in {"Unknown", "LsbAligned", "MsbAligned"},
             total \in 0..MaxTotal :
             \E unread \in 0..Min(total, roundUpPow2(n) - 1) :
                InUse(n, sb, h, total, unread)

SpecFrame == UNCHANGED <<seq, script, chunks, threadVars, convVars, rendVars>>

SpecCall(A) == phase = "use" /\ A /\ phase' = "done" /\ SpecFrame

Next ==
    \/ \E n \in 0..MaxNewSize, sb \in SilenceBytes : SpecCall(Resize(n, sb))
    \/ SpecCall(Clear)
    \/ \E n \in 0..MaxLen : \E d \in {Data(seq, n)} : SpecCall(Push(d))
    \/ \E n \in 0..MaxLen : SpecCall(Pop(n))
    \/ \E n \in 0..MaxSamples, pat \in {"lsb", "msb", "zero"} :
          \E d \in {Pattern(pat, 4 * n)} : SpecCall(Push24BitPacked(d))
    \/ \E n \in 0..MaxSamples : \E d \in {Pattern("lsb", 2 * n)} :
          SpecCall(Push16To32(d))
    \/ \E c \in 0..MaxChannels, g \in 0..MaxSamples, t \in {"none", "reverse"},
           sw \in BOOLEAN :
          \E d \in {Pattern("lsb", 4 * g * c)} : SpecCall(PushDSDPlanar(d, c, t, sw))
    \/ \E n \in 0..MaxLen :
          phase = "use" /\ GetDirectWriteRegion(n) /\ phase' = "region" /\ SpecFrame
    \/ \E n \in 0..MaxLen : \E d \in {Data(seq, n)} :
          phase = "region" /\ CommitDirectWrite(d) /\ phase' = "done" /\ SpecFrame
    \/ \E n \in 0..MaxLen :
          phase = "use" /\ GetDirectReadRegion(n) /\ phase' = "region" /\ SpecFrame
    \/ \E n \in 0..MaxLen :
          phase \in {"use", "region"} /\ AdvanceReadPos(n) /\ phase' = "done" /\ SpecFrame
    \/ \E h \in {"LsbAligned", "MsbAligned"} : SpecCall(SetS24PackModeHint(h))

Spec == Init /\ [][Next]_vars

\* C1: on a ring resized to a power-of-two capacity, getFreeSpace() +
\* getAvailable() is capacity - 1 in every state, before and after every call
C1_CapacityInvariant ==
    size_ # 0 => getFreeSpace + getAvailable = size_ - 1

\* C1 witness: a format-specific push has moved the write cursor across the
\* end of the storage of a ring that still holds unread bytes
C1_Witness ==
    /\ call.op \in {"push24BitPacked", "push16To32", "pushDSDPlanar"}
    /\ call.ret > 0
    /\ writePos_ < readPos_
    /\ getAvailable > 0
    /\ getFreeSpace > 0

(***************************************************************************)
(* SpecFifo: raw push and pop of the labelled stream in any order, from    *)
(* construction on.  resize() restarts the stream.                         *)
(***************************************************************************)
\* the unread bytes, oldest first: indices readPos_ .. writePos_ - 1 (mod size)
Unread == [k \in 1..getAvailable |-> BufAt(BitAnd(AddSz(readPos_, k - 1), mask_))]

InitFifo ==
    /\ InitRing /\ InitObs /\ InitThreads /\ InitConvVars /\ InitRend
    /\ seq = 0
    /\ phase = "none"
    /\ script = NoScript
    /\ chunks = <<>>

FifoFrame == UNCHANGED <<phase, script, chunks, threadVars, convVars, rendVars>>

NextFifo ==
    \/ \E n \in 0..MaxFifoSize : Resize(n, 0) /\ seq' = 0 /\ FifoFrame
    \/ \E n \in 0..MaxLen : \E d \in {Data(seq, n)} :
          Push(d) /\ seq' = (seq + call'.ret) % LabelMod /\ FifoFrame
    \/ \E n \in 0..MaxLen : Pop(n) /\ seq' = seq /\ FifoFrame

SpecFifo == InitFifo /\ [][NextFifo]_vars

\* C4: push stores the first min(len, free) bytes of data behind the unread
\* bytes and returns that count; pop returns the first min(len, available)
\* unread bytes; a push on a full ring and a pop on an empty ring return 0
\* and change no cursor and no stored byte; a push never changes the bytes
\* that were unread before it, whatever was refused earlier
C4_ClampedPushPop ==
    [][/\ call'.op = "push" =>
             LET k == Min(call'.len, getFreeSpace) IN
             /\ call'.ret = k
             /\ Unread' = Unread \o SubSeq(data', 1, k)
             /\ SubSeq(Unread', 1, Len(Unread)) = Unread
             /\ getFreeSpace = 0 =>
                   (call'.ret = 0 /\ UNCHANGED <<writePos_, readPos_, buffer_>>)
       /\ call'.op = "pop" =>
             LET k == Min(call'.len, getAvailable) IN
             /\ call'.ret = k
             /\ out' = SubSeq(Unread, 1, k)
             /\ Unread' = SubSeq(Unread, k + 1, Len(Unread))
             /\ getAvailable = 0 =>
                   (call'.ret = 0 /\ UNCHANGED <<writePos_, readPos_, buffer_>>)
      ]_vars

\* C4 witness: a push that was cut short by the free space, on a ring whose
\* unread bytes cross the end of the storage
C4_Witness ==
    /\ call.op = "push"
    /\ 0 < call.ret /\ call.ret < call.len
    /\ writePos_ < readPos_
    /\ getFreeSpace = 0

(***************************************************************************)
(* SpecRoundTrip: chunks pushed whole (the caller offers no more than the  *)
(* free space) and popped in the same chunking; chunks holds the chunks    *)
(* pushed and not yet popped.                                              *)
(***************************************************************************)
RoundTripFrame == UNCHANGED <<phase, script, threadVars, convVars, rendVars>>

NextRoundTrip ==
    \/ \E n \in 0..MaxFifoSize :
          Resize(n, 0) /\ seq' = 0 /\ chunks' = <<>> /\ RoundTripFrame
    \/ \E n \in 0..MaxLen : \E d \in {Data(seq, n)} :
          /\ n <= getFreeSpace
          /\ Len(chunks) < MaxChunks
          /\ Push(d)
          /\ seq' = (seq + call'.ret) % LabelMod
          /\ chunks' = Append(chunks, d)
          /\ RoundTripFrame
    \/ /\ chunks # <<>>
       /\ Pop(Len(Head(chunks)))
       /\ seq' = seq
       /\ chunks' = Tail(chunks)
       /\ RoundTripFrame

SpecRoundTrip == InitFifo /\ [][NextRoundTrip]_vars

\* C3: when no push is cut short, every pop of a chunk's length returns the
\* whole chunk: as many bytes as were pushed, with the same values in the
\* same order, also for a chunk that crosses the end of the storage
C3_RoundTrip ==
    [][/\ call'.op = "push" => call'.ret = call'.len
       /\ call'.op = "pop" =>
             /\ call'.ret = Len(Head(chunks))
             /\ out' = Head(chunks)
      ]_vars

\* C3 witness: a chunk of several bytes popped across the end of the storage
C3_Witness ==
    /\ call.op = "pop"
    /\ call.ret > 1
    /\ readPos_ > 0 /\ readPos_ < call.ret
    /\ Len(out) = call.ret

(***************************************************************************)
(* SpecConc: one producer thread in push() and one consumer thread in      *)
(* pop() on a ring that was resized before the threads started.  A step is *)
(* one cursor load, one byte of a memcpy_audio, or one cursor store; the   *)
(* steps of the two threads interleave in any order.  The cursors are      *)
(* atomics loaded with acquire and stored with release, and each is stored *)
(* by one thread only, so a load returns the latest store and the bytes    *)
(* copied before a store are visible after a load that sees it.  pushed is *)
(* the stream committed by the producer's stores of writePos_, popped the  *)
(* stream returned by completed pops.                                      *)
(***************************************************************************)
\* variant: pop does not clamp len to the available bytes
popLen_NoClamp(len, wp, rp) == len

\* pop: avail = (wp - rp) & mask_; if (len > avail) len = avail
popLen(len, wp, rp) == IF len > AvailOf(wp, rp) THEN AvailOf(wp, rp) ELSE len

\* push, slow path: free = (rp - wp - 1) & mask_; if (len > free) len = free
pushLen(len, wp, rp) == IF len > FreeOf(wp, rp) THEN FreeOf(wp, rp) ELSE len

\* the storage index of byte j of a copy of n bytes that starts at cursor at:
\* firstChunk bytes from at on, the rest from index 0 on
ChunkIndex(at, n, j) ==
    LET firstChunk == Min(n, size_ - at)
    IN IF j < firstChunk THEN at + j ELSE j - firstChunk

InitConc ==
    /\ \E newSize \in 1..MaxConcSize :
          /\ size_ = roundUpPow2(newSize)
          /\ mask_ = roundUpPow2(newSize) - 1
    /\ buffer_ = <<>>
    /\ writePos_ = 0
    /\ readPos_ = 0
    /\ silenceByte_ = 0
    /\ m_s24PackMode = "Unknown"
    /\ m_s24Hint = "Unknown"
    /\ m_s24DetectionConfirmed = FALSE
    /\ m_deferredSampleCount = 0
    /\ InitObs /\ InitThreads /\ InitConvVars /\ InitRend
    /\ seq = 0
    /\ phase = "none"
    /\ script = NoScript
    /\ chunks = <<>>

ConcFrame ==
    UNCHANGED <<size_, mask_, silenceByte_, m_s24PackMode, m_s24Hint,
                m_s24DetectionConfirmed, m_deferredSampleCount,
                obsVars, seq, phase, script, chunks, convVars, rendVars>>

\* push(data, len) called; getDirectWriteRegion loads writePos_
PushLoadWp(len) ==
    /\ prod.pc = "idle"
    /\ Len(pushed) + len <= MaxStream
    /\ prod' = [ThreadIdle EXCEPT !.pc = "fast_rp", !.len = len, !.wp = writePos_,
                                  !.bytes = Data(Len(pushed), len)]
    /\ UNCHANGED <<buffer_, writePos_, readPos_, cons, pushed, popped>>
    /\ ConcFrame

\* getDirectWriteRegion loads readPos_ and tests contiguous >= needed
PushLoadRp ==
    /\ prod.pc = "fast_rp"
    /\ prod' = IF WriteContiguous(prod.wp, readPos_) >= prod.len
               THEN [prod EXCEPT !.pc = "fast_copy", !.rp = readPos_, !.n = prod.len]
               ELSE [prod EXCEPT !.pc = "slow_wp", !.rp = readPos_]
    /\ UNCHANGED <<buffer_, writePos_, readPos_, cons, pushed, popped>>
    /\ ConcFrame

\* fast path: one byte of memcpy_audio(region, data, len)
PushFastCopy ==
    /\ prod.pc = "fast_copy"
    /\ prod.i < prod.n
    /\ buffer_' = memcpy_audio(buffer_, prod.wp + prod.i, prod.bytes, prod.i, 1)
    /\ prod' = [prod EXCEPT !.i = prod.i + 1]
    /\ UNCHANGED <<writePos_, readPos_, cons, pushed, popped>>
    /\ ConcFrame

\* fast path: commitDirectWrite(len) stores writePos_; push returns len
PushCommit ==
    /\ prod.pc = "fast_copy"
    /\ prod.i = prod.n
    /\ writePos_' = BitAnd(AddSz(writePos_, prod.len), mask_)
    /\ pushed' = pushed \o SubSeq(prod.bytes, 1, prod.len)
    /\ prod' = ThreadIdle
    /\ UNCHANGED <<buffer_, readPos_, cons, popped>>
    /\ ConcFrame

\* slow path: loads writePos_ again
PushSlowLoadWp ==
    /\ prod.pc = "slow_wp"
    /\ prod' = [prod EXCEPT !.pc = "slow_rp", !.wp = writePos_]
    /\ UNCHANGED <<buffer_, writePos_, readPos_, cons, pushed, popped>>
    /\ ConcFrame

\* slow path: loads readPos_, clamps len to the free space, returns 0 if
\* nothing fits
PushSlowLoadRp ==
    /\ prod.pc = "slow_rp"
    /\ prod' = IF pushLen(prod.len, prod.wp, readPos_) = 0
               THEN ThreadIdle
               ELSE [prod EXCEPT !.pc = "slow_copy", !.rp = readPos_,
                                 !.n = pushLen(prod.len, prod.wp, readPos_)]
    /\ UNCHANGED <<buffer_, writePos_, readPos_, cons, pushed, popped>>
    /\ ConcFrame

\* slow path: one byte of the first or of the wrapped second memcpy_audio
PushSlowCopy ==
    /\ prod.pc = "slow_copy"
    /\ prod.i < prod.n
    /\ buffer_' = memcpy_audio(buffer_, ChunkIndex(prod.wp, prod.n, prod.i),
                               prod.bytes, prod.i, 1)
    /\ prod' = [prod EXCEPT !.i = prod.i + 1]
    /\ UNCHANGED <<writePos_, readPos_, cons, pushed, popped>>
    /\ ConcFrame

\* slow path: stores writePos_ = (wp + len) & mask_; push returns len
PushSlowStore ==
    /\ prod.pc = "slow_copy"
    /\ prod.i = prod.n
    /\ writePos_' = BitAnd(AddSz(prod.wp, prod.n), mask_)
    /\ pushed' = pushed \o SubSeq(prod.bytes, 1, prod.n)
    /\ prod' = ThreadIdle
    /\ UNCHANGED <<buffer_, readPos_, cons, popped>>
    /\ ConcFrame

\* pop(dest, len) called; loads writePos_
PopLoadWp(len) ==
    /\ cons.pc = "idle"
    /\ cons' = [ThreadIdle EXCEPT !.pc = "pop_rp", !.len = len, !.wp = writePos_]
    /\ UNCHANGED <<buffer_, writePos_, readPos_, prod, pushed, popped>>
    /\ ConcFrame

\* pop loads readPos_, clamps len to the available bytes, returns 0 if none
PopLoadRp ==
    /\ cons.pc = "pop_rp"
    /\ cons' = IF popLen(cons.len, cons.wp, readPos_) = 0
               THEN ThreadIdle
               ELSE [cons EXCEPT !.pc = "pop_copy", !.rp = readPos_,
                                 !.n = popLen(cons.len, cons.wp, readPos_)]
    /\ UNCHANGED <<buffer_, writePos_, readPos_, prod, pushed, popped>>
    /\ ConcFrame

\* pop: one byte of the first or of the wrapped second memcpy_audio into dest
PopCopy ==
    /\ cons.pc = "pop_copy"
    /\ cons.i < cons.n
    /\ cons' = [cons EXCEPT !.i = cons.i + 1,
                            !.bytes = Append(cons.bytes,
                                             BufAt(ChunkIndex(cons.rp, cons.n, cons.i)))]
    /\ UNCHANGED <<buffer_, writePos_, readPos_, prod, pushed, popped>>
    /\ ConcFrame

\* pop stores readPos_ = (rp + len) & mask_ and returns len
PopStore ==
    /\ cons.pc = "pop_copy"
    /\ cons.i = cons.n
    /\ readPos_' = BitAnd(AddSz(cons.rp, cons.n), mask_)
    /\ popped' = popped \o cons.bytes
    /\ cons' = ThreadIdle
    /\ UNCHANGED <<buffer_, writePos_, prod, pushed>>
    /\ ConcFrame

NextConc ==
    \/ \E len \in 0..MaxLen : PushLoadWp(len)
    \/ PushLoadRp
    \/ PushFastCopy
    \/ PushCommit
    \/ PushSlowLoadWp
    \/ PushSlowLoadRp
    \/ PushSlowCopy
    \/ PushSlowStore
    \/ \E len \in 0..MaxLen : PopLoadWp(len)
    \/ PopLoadRp
    \/ PopCopy
    \/ PopStore

SpecConc == InitConc /\ [][NextConc]_vars

\* the storage indices of the published unread bytes
PublishedUnread == {BitAnd(AddSz(readPos_, j), mask_) : j \in 0..(getAvailable - 1)}

\* the storage indices the producer has still to write in its current call
ProducerPending ==
    IF prod.pc = "fast_copy" THEN {prod.wp + j : j \in prod.i..(prod.n - 1)}
    ELSE IF prod.pc = "slow_copy"
    THEN {ChunkIndex(prod.wp, prod.n, j) : j \in prod.i..(prod.n - 1)}
    ELSE {}

\* the storage indices the consumer has still to read in its current call
ConsumerPending ==
    IF cons.pc = "pop_copy"
    THEN {ChunkIndex(cons.rp, cons.n, j) : j \in cons.i..(cons.n - 1)}
    ELSE {}

IsPrefix(s, t) == Len(s) <= Len(t) /\ SubSeq(t, 1, Len(s)) = s

\* C2: under every interleaving of the two threads' cursor loads, byte
\* copies and cursor stores: getAvailable() is the number of bytes pushed
\* and not yet popped and never exceeds capacity - 1; the consumer reads only
\* bytes the producer has published; the producer writes no index that holds
\* an unread byte; the popped stream, with the bytes of a pop in progress,
\* is a prefix of the pushed stream
C2_ProducerConsumer ==
    /\ getAvailable <= size_ - 1
    /\ getAvailable = Len(pushed) - Len(popped)
    /\ ConsumerPending \subseteq PublishedUnread
    /\ ProducerPending \cap PublishedUnread = {}
    /\ IsPrefix(popped \o cons.bytes, pushed)

\* C2 witness: the consumer is in the middle of a pop's copy while the
\* producer is in the middle of a slow-path copy that crosses the end of the
\* storage, after earlier pops returned bytes
C2_Witness ==
    /\ prod.pc = "slow_copy" /\ prod.i > 0 /\ prod.i < prod.n
    /\ prod.wp + prod.n > size_
    /\ cons.pc = "pop_copy" /\ cons.i > 0 /\ cons.i < cons.n
    /\ Len(popped) > 0

(***************************************************************************)
(* SpecScript: the scenarios of test_ring_buffer_wraparound and            *)
(* test_full_integration with their inputs varied: resize, a raw push of   *)
(* 0xAA bytes, a pop, one push of numbered bytes (raw or format-specific), *)
(* and a pop of 200 bytes.  script records the inputs chosen.              *)
(***************************************************************************)
ScriptSizes == {64, 1024, 1048576}
ScriptFills == {0, 40, 900}
ScriptDrains == {0, 10, 800}
\* input sizes of the format-specific push; the largest exceeds what one
\* staging buffer holds and is offered to the 1 MiB ring
ScriptInputs(size) ==
    {0, 3, 128, 384, 768} \cup (IF size > 2 * STAGING_SIZE THEN {100000} ELSE {})

Fill(n) == Bytes([i \in 1..n |-> 170])

InitScript ==
    /\ InitRing /\ InitObs /\ InitThreads /\ InitConvVars /\ InitRend
    /\ seq = 0
    /\ phase = "new"
    /\ script = NoScript
    /\ chunks = <<>>

ScriptFrame == UNCHANGED <<seq, chunks, threadVars, convVars, rendVars>>

ScriptResize(size) ==
    /\ phase = "new"
    /\ Resize(size, 0)
    /\ phase' = "sized"
    /\ script' = [script EXCEPT !.size = size]
    /\ ScriptFrame

ScriptFill(n) ==
    /\ phase = "sized"
    /\ \E d \in {Fill(n)} : Push(d)
    /\ phase' = "filled"
    /\ script' = [script EXCEPT !.fill = n]
    /\ ScriptFrame

ScriptDrain(n) ==
    /\ phase = "filled"
    /\ Pop(n)
    /\ phase' = "drained"
    /\ script' = [script EXCEPT !.drain = n]
    /\ ScriptFrame

ScriptPushed(op, n, c) ==
    /\ phase' = "pushed"
    /\ script' = [script EXCEPT !.op = op, !.len = n, !.ch = c, !.ret = call'.ret]
    /\ ScriptFrame

ScriptPush ==
    /\ phase = "drained"
    /\ \E d \in {Pattern("count0", 200)} : Push(d)
    /\ ScriptPushed("push", 200, 0)

ScriptPush24BitPacked(n) ==
    /\ phase = "drained"
    /\ \E d \in {Pattern("count0", n)} : Push24BitPacked(d)
    /\ ScriptPushed("push24BitPacked", n, 0)

ScriptPush16To32(n) ==
    /\ phase = "drained"
    /\ \E d \in {Pattern("count0", n)} : Push16To32(d)
    /\ ScriptPushed("push16To32", n, 0)

ScriptPushDSDPlanar(n, c) ==
    /\ phase = "drained"
    /\ \E d \in {Pattern("count0", n)} : PushDSDPlanar(d, c, "none", FALSE)
    /\ ScriptPushed("pushDSDPlanar", n, c)

ScriptReadBack ==
    /\ phase = "pushed"
    /\ Pop(200)
    /\ phase' = "read"
    /\ UNCHANGED script
    /\ ScriptFrame

NextScript ==
    \/ \E size \in ScriptSizes : ScriptResize(size)
    \/ \E n \in ScriptFills : ScriptFill(n)
    \/ \E n \in ScriptDrains : ScriptDrain(n)
    \/ ScriptPush
    \/ \E n \in ScriptInputs(size_) : ScriptPush24BitPacked(n)
    \/ \E n \in ScriptInputs(size_) : ScriptPush16To32(n)
    \/ \E n \in ScriptInputs(size_), c \in 1..MaxChannels : ScriptPushDSDPlanar(n, c)
    \/ ScriptReadBack

SpecScript == InitScript /\ [][NextScript]_vars

\* C5: capacity 1024, push of 900 bytes, pop of 800, push of 200 bytes
\* valued 0..199: the push reports 200 and pop(200) yields 0..199 in order
C5_WrapScenario ==
    (/\ phase = "read"
     /\ script.size = 1024 /\ script.fill = 900 /\ script.drain = 800
     /\ script.op = "push" /\ script.len = 200) =>
        /\ script.ret = 200
        /\ call.ret = 200
        /\ out = [i \in 1..200 |-> i - 1]

\* C5: what the scenario reaches: the push reports 200, and pop(200) yields
\* the 100 bytes left unread by pop(800) followed by 0..99
C5_Witness ==
    /\ phase = "read"
    /\ script.size = 1024 /\ script.fill = 900 /\ script.drain = 800
    /\ script.op = "push" /\ script.len = 200
    /\ script.ret = 200
    /\ call.ret = 200
    /\ out = [i \in 1..200 |-> IF i <= 100 THEN 170 ELSE i - 101]
    /\ readPos_ = 1000 /\ writePos_ = 76

\* C6: push24BitPacked returns 4k and makes 3k more bytes available with
\* k = min(inputSize/4, 65536/3, free/3); push16To32 returns 2k and makes
\* 4k more available with k = min(inputSize/2, 65536/4, free/4);
\* pushDSDPlanar returns 4gC and makes as many more available with
\* g = (min(inputSize, 65536, free) / C) / 4; on an empty 1 MiB ring 768,
\* 384 and 128 (two channels) input bytes return 768, 384 and 128
C6_InputBytesConsumed ==
    [][/\ call'.op = "push24BitPacked" =>
             LET k == Min(Min(call'.len \div 4, 65536 \div 3), getFreeSpace \div 3) IN
             /\ call'.ret = 4 * k
             /\ getAvailable' = getAvailable + 3 * k
             /\ (size_ = 1048576 /\ getAvailable = 0 /\ call'.len = 768) =>
                   call'.ret = 768
       /\ call'.op = "push16To32" =>
             LET k == Min(Min(call'.len \div 2, 65536 \div 4), getFreeSpace \div 4) IN
             /\ call'.ret = 2 * k
             /\ getAvailable' = getAvailable + 4 * k
             /\ (size_ = 1048576 /\ getAvailable = 0 /\ call'.len = 384) =>
                   call'.ret = 384
       /\ call'.op = "pushDSDPlanar" =>
             LET g == (Min(Min(call'.len, 65536), getFreeSpace) \div call'.ch) \div 4 IN
             /\ call'.ret = 4 * g * call'.ch
             /\ getAvailable' = getAvailable + 4 * g * call'.ch
             /\ (size_ = 1048576 /\ getAvailable = 0 /\ call'.len = 128
                 /\ call'.ch = 2) => call'.ret = 128
      ]_vars

\* C6 witness: push24BitPacked offered 192 samples on a ring of 1024 holding
\* 890 unread bytes has consumed the 44 samples the free space admits
C6_Witness ==
    /\ call.op = "push24BitPacked"
    /\ size_ = 1024
    /\ call.len = 768
    /\ call.ret = 4 * 44
    /\ getAvailable = 890 + 3 * 44

(***************************************************************************)
(* SpecConv: the conversion routines called on their own, as the tests of  *)
(* test_audio_memory.cpp call them, and push24BitPacked on a fresh ring.   *)
(***************************************************************************)
InitConv ==
    /\ InitRing /\ InitObs /\ InitThreads /\ InitRend
    /\ seq = 0
    /\ phase = "none"
    /\ script = NoScript
    /\ chunks = <<>>
    /\ \E units \in 0..MaxUnits, pat \in Patterns : cvSrc = Pattern(pat, 4 * units)
    /\ cvDst = <<>>
    /\ cv = NoCall

ConvFrame ==
    UNCHANGED <<ringVars, obsVars, seq, phase, script, chunks, threadVars, cvSrc,
                rendVars>>

CallConvert24BitPacked ==
    /\ cv.op = "none"
    /\ call.op = "new"
    /\ cvDst' = convert24BitPacked_AVX2(cvSrc, Len(cvSrc) \div 4)
    /\ cv' = [NoCall EXCEPT !.op = "convert24BitPacked", !.n = Len(cvSrc) \div 4]
    /\ ConvFrame

CallConvert24BitPackedShifted ==
    /\ cv.op = "none"
    /\ call.op = "new"
    /\ cvDst' = convert24BitPackedShifted_AVX2(cvSrc, Len(cvSrc) \div 4)
    /\ cv' = [NoCall EXCEPT !.op = "convert24BitPackedShifted", !.n = Len(cvSrc) \div 4]
    /\ ConvFrame

CallConvert16To32 ==
    /\ cv.op = "none"
    /\ call.op = "new"
    /\ cvDst' = convert16To32_AVX2(cvSrc, Len(cvSrc) \div 2)
    /\ cv' = [NoCall EXCEPT !.op = "convert16To32", !.n = Len(cvSrc) \div 2]
    /\ ConvFrame

\* each channel's block is a whole number of 4-byte groups
CallConvertDSDPlanar(numChannels, table, byteSwap) ==
    /\ cv.op = "none"
    /\ call.op = "new"
    /\ Len(cvSrc) % (4 * numChannels) = 0
    /\ cvDst' = convertDSDPlanar_AVX2(cvSrc, Len(cvSrc), numChannels, table, byteSwap)
    /\ cv' = [op |-> "convertDSDPlanar", n |-> Len(cvSrc) \div numChannels,
              ch |-> numChannels, table |-> table, swap |-> byteSwap]
    /\ ConvFrame

ConvResize ==
    /\ cv.op = "none"
    /\ size_ = 0
    /\ Resize(ConvRingSize, 0)
    /\ UNCHANGED <<seq, phase, script, chunks, threadVars, convVars, rendVars>>

ConvSetHint(hint) ==
    /\ cv.op = "none"
    /\ size_ # 0
    /\ call.op = "resize"
    /\ SetS24PackModeHint(hint)
    /\ UNCHANGED <<seq, phase, script, chunks, threadVars, convVars, rendVars>>

ConvPush24BitPacked ==
    /\ cv.op = "none"
    /\ size_ # 0
    /\ Push24BitPacked(cvSrc)
    /\ cv' = [NoCall EXCEPT !.op = "push24BitPacked", !.n = Len(cvSrc) \div 4]
    /\ UNCHANGED <<seq, phase, script, chunks, threadVars, cvSrc, cvDst, rendVars>>

NextConv ==
    \/ CallConvert24BitPacked
    \/ CallConvert24BitPackedShifted
    \/ CallConvert16To32
    \/ \E c \in 1..MaxChannels, t \in {"none", "reverse"}, sw \in BOOLEAN :
          CallConvertDSDPlanar(c, t, sw)
    \/ ConvResize
    \/ \E h \in {"LsbAligned", "MsbAligned"} : ConvSetHint(h)
    \/ ConvPush24BitPacked

SpecConv == InitConv /\ [][NextConv]_vars

(***************************************************************************)
(* Properties of the conversions (SpecConv)                                *)
(***************************************************************************)
\* C7: a 24-bit repack of n samples outputs 3n bytes; the LSB-aligned form
\* outputs input bytes 4i, 4i+1, 4i+2 as sample i and the MSB-aligned form
\* bytes 4i+1, 4i+2, 4i+3, for every n (groups of 8 and tail alike);
\* push24BitPacked stores the LSB form unless the effective mode is
\* MsbAligned
C7_Repack24 ==
    /\ cv.op = "convert24BitPacked" =>
          /\ Len(cvDst) = 3 * cv.n
          /\ \A i \in 0..(cv.n - 1), k \in 0..2 :
                cvDst[3 * i + k + 1] = cvSrc[4 * i + k + 1]
    /\ cv.op = "convert24BitPackedShifted" =>
          /\ Len(cvDst) = 3 * cv.n
          /\ \A i \in 0..(cv.n - 1), k \in 0..2 :
                cvDst[3 * i + k + 1] = cvSrc[4 * i + 1 + k + 1]
    /\ cv.op = "push24BitPacked" =>
          LET first == IF effectiveMode(m_s24PackMode, m_s24Hint) = "MsbAligned"
                       THEN 1 ELSE 0
          IN /\ call.ret = 4 * cv.n
             /\ getAvailable = 3 * cv.n
             /\ \A i \in 0..(cv.n - 1), k \in 0..2 :
                   BufAt(3 * i + k) = cvSrc[4 * i + first + k + 1]

\* C7 witness: push24BitPacked of 35 MSB-aligned samples (four vectorized
\* groups and a tail of three) stored in the MSB form
C7_Witness ==
    /\ cv.op = "push24BitPacked"
    /\ cv.n = 35
    /\ effectiveMode(m_s24PackMode, m_s24Hint) = "MsbAligned"
    /\ BufAt(3 * 34 + 2) = cvSrc[4 * 34 + 3 + 1]
    /\ cvSrc[4 * 34 + 3 + 1] # cvSrc[4 * 34 + 2 + 1]

\* C8: the 16-to-32 upsample of n samples outputs 4n bytes; word i is
\* 00 00 followed by input bytes 2i and 2i+1, for every n
C8_Upsample16To32 ==
    cv.op = "convert16To32" =>
        /\ Len(cvDst) = 4 * cv.n
        /\ \A i \in 0..(cv.n - 1) :
              /\ cvDst[4 * i + 1] = 0
              /\ cvDst[4 * i + 2] = 0
              /\ cvDst[4 * i + 3] = cvSrc[2 * i + 1]
              /\ cvDst[4 * i + 4] = cvSrc[2 * i + 2]

\* C8 witness: 70 samples (four vectorized groups and a tail of six) of
\* distinct bytes upsampled
C8_Witness ==
    /\ cv.op = "convert16To32"
    /\ cv.n = 70
    /\ cvSrc[1] # cvSrc[2]
    /\ cvDst[4 * 69 + 4] = cvSrc[2 * 69 + 2]
    /\ cvDst[4 * 69 + 4] # 0

\* C9: without bit reversal or byte swap, C planar blocks of B bytes give
\* C*B output bytes whose 4-byte group g*C + c is bytes 4g..4g+3 of channel
\* c; an 0xAA block and an 0x55 block give AA AA AA AA 55 55 55 55 repeating
C9_DSDInterleave ==
    (cv.op = "convertDSDPlanar" /\ cv.table = "none" /\ ~cv.swap) =>
        /\ Len(cvDst) = cv.ch * cv.n
        /\ \A g \in 0..((cv.n \div 4) - 1), c \in 0..(cv.ch - 1), j \in 0..3 :
              cvDst[(g * cv.ch + c) * 4 + j + 1] = cvSrc[c * cv.n + 4 * g + j + 1]
        /\ (cv.ch = 2 /\ cvSrc = [i \in 1..(2 * cv.n) |-> IF i <= cv.n THEN 170 ELSE 85]) =>
              cvDst = [k \in 1..(2 * cv.n) |-> IF ((k - 1) \div 4) % 2 = 0 THEN 170 ELSE 85]

\* C9 witness: two blocks of 68 bytes (two vectorized iterations and one
\* tail group) of 0xAA and 0x55 interleaved
C9_Witness ==
    /\ cv.op = "convertDSDPlanar" /\ cv.table = "none" /\ ~cv.swap
    /\ cv.ch = 2 /\ cv.n = 68
    /\ cvSrc[1] = 170 /\ cvSrc[69] = 85
    /\ cvDst[5] = 85 /\ cvDst[129] = 170 /\ cvDst[133] = 85

\* C10: for two channels, every bit-reversal and byte-swap combination and
\* every block length that is a multiple of 4, the stereo path outputs what
\* the element-wise algorithm outputs
C10_StereoMatchesScalar ==
    (cv.op = "convertDSDPlanar" /\ cv.ch = 2) =>
        cvDst = convertDSDPlanar_Scalar(cvSrc, Len(cvSrc), 2, cv.table, cv.swap)

\* C10: a stereo conversion with byte swap of blocks of 4 bytes whose output
\* groups are not byte-reversed
C10_Witness ==
    /\ cv.op = "convertDSDPlanar" /\ cv.ch = 2 /\ cv.swap /\ cv.n = 4
    /\ cvSrc[1] # cvSrc[4]
    /\ cvDst[1] = TableLookup(cv.table, cvSrc[1])

(***************************************************************************)
(* SpecAlign: the S24 alignment state.  A ring of AlignRingSize bytes with *)
(* silence byte 0 receives clear(), setS24PackModeHint() with the hints    *)
(* the renderer passes, and push24BitPacked() of 24-in-32 samples.  seq    *)
(* counts the push24BitPacked calls.  phase remembers how the ring got     *)
(* where it is: "cleared" after clear(), "hinted" after clear() and one    *)
(* hint, "rearmed" after a hint given to a confirmed ring, "use"           *)
(* otherwise; a push that consumes nothing keeps it.                       *)
(***************************************************************************)
AlignPatterns == {"zero", "lsb", "msb", "amb", "late"}
AlignSampleCounts == {2, 33}
AlignHints == {"LsbAligned", "MsbAligned"}

\* byte k of sample s: "lsb" has byte 3 zero and byte 0 zero in sample 0
\* only, "msb" has byte 0 zero and byte 3 zero in sample 0 only, "amb" has
\* neither zero, "late" is silent in its first 32 samples
AlignByte(pat, s, k) ==
    IF pat = "lsb" THEN (IF s = 0 THEN <<0, 18, 19, 0>> ELSE <<17, 18, 19, 0>>)[k + 1]
    ELSE IF pat = "msb" THEN (IF s = 0 THEN <<0, 33, 34, 0>> ELSE <<0, 33, 34, 35>>)[k + 1]
    ELSE IF pat = "amb" THEN <<49, 50, 51, 52>>[k + 1]
    ELSE IF pat = "late" THEN (IF s < 32 THEN 0 ELSE <<49, 50, 51, 52>>[k + 1])
    ELSE 0

AlignData(pat, n) == Bytes([i \in 1..(4 * n) |-> AlignByte(pat, (i - 1) \div 4, (i - 1) % 4)])

\* deferred-sample counts a run of silent pushes has reached
DeferredCounts == {0, DEFERRED_TIMEOUT_SAMPLES - 33, DEFERRED_TIMEOUT_SAMPLES - 1}

\* resize(AlignRingSize, 0), setS24PackModeHint(hint) unless hint is
\* "Unknown", then silent pushes of count samples in all, all consumed
AfterSilence(hint, count) ==
    /\ size_ = roundUpPow2(AlignRingSize)
    /\ mask_ = roundUpPow2(AlignRingSize) - 1
    /\ silenceByte_ = 0
    /\ buffer_ = <<>>
    /\ writePos_ = (3 * count) % roundUpPow2(AlignRingSize)
    /\ readPos_ = (3 * count) % roundUpPow2(AlignRingSize)
    /\ m_s24PackMode = hint
    /\ m_s24Hint = hint
    /\ m_s24DetectionConfirmed = FALSE
    /\ m_deferredSampleCount = count
    /\ phase = IF count > 0 THEN "use" ELSE IF hint = "Unknown" THEN "cleared" ELSE "hinted"

\* script keeps the alignment state and phase the last call started from
Before == [mode |-> m_s24PackMode, hint |-> m_s24Hint,
           confirmed |-> m_s24DetectionConfirmed,
           deferred |-> m_deferredSampleCount, phase |-> phase]

\* the ring after resize(AlignRingSize, 0), a push24BitPacked of 33 samples
\* of pattern pat, which detection confirmed as mode, and a pop of all of
\* them: the storage holds the packed samples
AfterDetection(pat, mode) ==
    LET cap == roundUpPow2(AlignRingSize)
        first == IF mode = "MsbAligned" THEN 1 ELSE 0 IN
    /\ size_ = cap
    /\ mask_ = cap - 1
    /\ silenceByte_ = 0
    /\ buffer_ = [i \in 0..98 |-> AlignByte(pat, i \div 3, (i % 3) + first)]
    /\ writePos_ = 99
    /\ readPos_ = 99
    /\ m_s24PackMode = mode
    /\ m_s24Hint = "Unknown"
    /\ m_s24DetectionConfirmed = TRUE
    /\ m_deferredSampleCount = 0
    /\ phase = "use"

InitAlign ==
    /\ InitObs /\ InitThreads /\ InitConvVars /\ InitRend
    /\ seq = 0
    /\ chunks = <<>>
    /\ \/ \E hint \in {"Unknown"} \cup AlignHints, count \in DeferredCounts :
             AfterSilence(hint, count)
       \/ AfterDetection("lsb", "LsbAligned")
       \/ AfterDetection("msb", "MsbAligned")
    /\ script = Before

AlignFrame == script' = Before /\ UNCHANGED <<chunks, threadVars, convVars, rendVars>>

AlignClear ==
    /\ Clear
    /\ phase' = "cleared"
    /\ seq' = seq
    /\ AlignFrame

AlignSetHint(hint) ==
    /\ SetS24PackModeHint(hint)
    /\ phase' = IF m_s24DetectionConfirmed THEN "rearmed"
                ELSE IF phase = "cleared" THEN "hinted" ELSE "use"
    /\ seq' = seq
    /\ AlignFrame

AlignPush(pat, n) ==
    /\ seq < MaxAlignPushes
    /\ \E d \in {AlignData(pat, n)} : Push24BitPacked(d)
    /\ phase' = IF call'.ret > 0 THEN "use" ELSE phase
    /\ seq' = seq + 1
    /\ AlignFrame

NextAlign ==
    \/ AlignClear
    \/ \E hint \in AlignHints : AlignSetHint(hint)
    \/ \E pat \in AlignPatterns, n \in AlignSampleCounts : AlignPush(pat, n)

SpecAlign == InitAlign /\ [][NextAlign]_vars

\* byte k of each of the first min(n, 32) samples of d is zero
WindowAllZero(d, n, k) == \A i \in 0..(Min(n, 32) - 1) : d[4 * i + k + 1] = 0

\* the last call was a push24BitPacked that consumed samples
PushedSamples == call.op = "push24BitPacked" /\ call.ret > 0

\* the samples it consumed
Consumed == call.ret \div 4

\* C11: after clear() and an optional hint, the first push24BitPacked that
\* consumes samples whose window (the first min(n, 32) consumed samples) has
\* byte 0 always zero and byte 3 not always zero sets MsbAligned; byte 0 not
\* always zero and byte 3 always zero sets LsbAligned; neither always zero
\* sets LsbAligned; in each case the mode is confirmed, the deferred counter
\* is 0 and the hint, conflicting or not, is left as it was
C11_DetectionOnData ==
    (script.phase \in {"cleared", "hinted"} /\ PushedSamples) =>
        LET z0 == WindowAllZero(data, Consumed, 0)
            z3 == WindowAllZero(data, Consumed, 3)
            resolved(mode) ==
                /\ m_s24PackMode = mode
                /\ m_s24DetectionConfirmed
                /\ m_deferredSampleCount = 0
                /\ m_s24Hint = script.hint
        IN /\ (z0 /\ ~z3) => resolved("MsbAligned")
           /\ (~z0 /\ z3) => resolved("LsbAligned")
           /\ (~z0 /\ ~z3) => resolved("LsbAligned")

\* C11 witness: an MSB-aligned window pushed after clear() and a hint of
\* LsbAligned was classified MsbAligned
C11_Witness ==
    /\ PushedSamples /\ Consumed = 33
    /\ script.phase = "hinted"
    /\ WindowAllZero(data, 33, 0) /\ ~WindowAllZero(data, 33, 3)
    /\ m_s24Hint = "LsbAligned"
    /\ m_s24PackMode = "MsbAligned"
    /\ m_s24DetectionConfirmed

\* C12: a push24BitPacked of an all-zero window, from mode Unknown with no
\* hint and staying at or below the timeout threshold, leaves the mode
\* Deferred, not confirmed, and the deferred counter grown by the samples
\* consumed
C12_SilentWindowDeferred ==
    (/\ PushedSamples
     /\ script.mode = "Unknown" /\ script.hint = "Unknown"
     /\ WindowAllZero(data, Consumed, 0) /\ WindowAllZero(data, Consumed, 3)
     /\ script.deferred + Consumed <= 48000) =>
        /\ m_s24PackMode = "Deferred"
        /\ ~m_s24DetectionConfirmed
        /\ m_deferredSampleCount = script.deferred + Consumed

\* C12: what the silent push reaches: the counter has grown, nothing is
\* confirmed, and the mode held by the ring is still Unknown
C12_Witness ==
    /\ PushedSamples
    /\ script.mode = "Unknown" /\ script.hint = "Unknown"
    /\ WindowAllZero(data, Consumed, 0) /\ WindowAllZero(data, Consumed, 3)
    /\ m_s24PackMode = "Unknown"
    /\ ~m_s24DetectionConfirmed
    /\ m_deferredSampleCount = script.deferred + Consumed
    /\ m_deferredSampleCount <= 48000

\* the packed form of the samples consumed: bytes first, first+1, first+2 of
\* each sample are the newest unread bytes
PackedFrom(first) ==
    /\ getAvailable >= 3 * Consumed
    /\ \A i \in 0..(Consumed - 1), k \in 0..2 :
          BufAt(BitAnd(SubSz(writePos_, 3 * (Consumed - i) - k), mask_))
             = data[4 * i + first + k + 1]

\* C13: a push24BitPacked of an all-zero window that adds to the deferred
\* counter: once the counter exceeds 48000 the mode is the hint if one is
\* set, else LsbAligned, and is confirmed; at or below 48000 nothing is
\* confirmed and the samples are packed in the hint's form (LSB form without
\* a hint)
C13_DeferredTimeout ==
    (/\ PushedSamples
     /\ WindowAllZero(data, Consumed, 0) /\ WindowAllZero(data, Consumed, 3)
     /\ m_deferredSampleCount > script.deferred) =>
        LET fallback == IF m_s24Hint # "Unknown" THEN m_s24Hint ELSE "LsbAligned"
        IN /\ m_deferredSampleCount > 48000 =>
                 /\ m_s24PackMode = fallback
                 /\ m_s24DetectionConfirmed
           /\ m_deferredSampleCount <= 48000 =>
                 /\ ~m_s24DetectionConfirmed
                 /\ PackedFrom(IF fallback = "MsbAligned" THEN 1 ELSE 0)

\* C13 witness: silent pushes with a hint of MsbAligned took the counter
\* past 48000 and the mode was resolved to the hint
C13_Witness ==
    /\ PushedSamples
    /\ WindowAllZero(data, Consumed, 0) /\ WindowAllZero(data, Consumed, 3)
    /\ script.deferred <= 48000
    /\ m_deferredSampleCount > 48000
    /\ m_s24Hint = "MsbAligned"
    /\ m_s24PackMode = "MsbAligned"
    /\ m_s24DetectionConfirmed

C15_HintRearmsDetection ==
    (/\ script.phase = "rearmed" /\ PushedSamples
     /\ ~(WindowAllZero(data, Consumed, 0) /\ WindowAllZero(data, Consumed, 3))) =>
        /\ m_s24PackMode = IF WindowAllZero(data, Consumed, 0) THEN "MsbAligned"
                           ELSE "LsbAligned"
        /\ m_s24DetectionConfirmed

\* C15: a ring confirmed LsbAligned was given the hint MsbAligned and then
\* an MSB-aligned window: the mode is still LsbAligned and not confirmed
C15_Witness ==
    /\ PushedSamples /\ Consumed = 33
    /\ script.phase = "rearmed"
    /\ WindowAllZero(data, 33, 0) /\ ~WindowAllZero(data, 33, 3)
    /\ m_s24Hint = "MsbAligned"
    /\ m_s24PackMode = "LsbAligned"
    /\ ~m_s24DetectionConfirmed

(***************************************************************************)
(* Spec, continued: the direct regions, resize and clear                   *)
(***************************************************************************)
\* C16: on a ring with a power-of-two capacity, getDirectWriteRegion(needed)
\* succeeds exactly when needed <= min(capacity - writeCursor, free); on
\* success the region starts at the write cursor and its reported length is
\* that minimum; the call moves no cursor; commitDirectWrite(n) with n within
\* the reported length raises getAvailable() by n and makes the n written
\* bytes the newest unread bytes
C16_DirectWrite ==
    [][/\ (call'.op = "getDirectWriteRegion" /\ size_ # 0) =>
             LET fit == Min(size_ - writePos_, getFreeSpace) IN
             /\ call'.ret = 1 <=> call'.len <= fit
             /\ call'.ret = 1 =>
                   (region'.kind = "write" /\ region'.start = writePos_
                    /\ region'.avail = fit)
             /\ UNCHANGED <<writePos_, readPos_>>
       /\ call'.op = "commitDirectWrite" =>
             /\ call'.len = Len(data')
             /\ getAvailable' = getAvailable + call'.len
             /\ Unread' = Unread \o data'
      ]_vars

\* C16 witness: a commit that filled its region up to the end of the
\* storage, behind bytes that were unread before it
C16_Witness ==
    /\ call.op = "commitDirectWrite"
    /\ call.len >= 2
    /\ writePos_ = 0
    /\ getAvailable > call.len
    /\ SubSeq(Unread, getAvailable - call.len + 1, getAvailable) = data

\* C17: on a ring with a power-of-two capacity, getDirectReadRegion(needed)
\* succeeds exactly when available >= needed and needed <= capacity -
\* readCursor; on success the region starts at the oldest unread byte, shows
\* unread bytes in pushed order and its reported length is >= needed; it
\* fails on underrun and when the unread bytes wrap before needed bytes are
\* contiguous
C17_DirectRead ==
    [][(call'.op = "getDirectReadRegion" /\ size_ # 0) =>
          LET needed == call'.len IN
          /\ call'.ret = 1 <=> (getAvailable >= needed /\ needed <= size_ - readPos_)
          /\ call'.ret = 1 =>
                /\ region'.kind = "read" /\ region'.start = readPos_
                /\ region'.avail >= needed
                /\ region'.avail <= getAvailable
                /\ out' = SubSeq(Unread, 1, region'.avail)
          /\ getAvailable < needed => call'.ret = 0
          /\ (getAvailable >= needed /\ size_ - readPos_ < needed) => call'.ret = 0
      ]_vars

\* C17 witness: a region handed out on a ring whose unread bytes wrap: it
\* ends at the end of the storage and is shorter than what is unread
C17_Witness ==
    /\ call.op = "getDirectReadRegion"
    /\ call.ret = 1
    /\ call.len >= 1
    /\ writePos_ < readPos_
    /\ region.avail = size_ - readPos_
    /\ region.avail < getAvailable
    /\ Len(out) = region.avail

\* C18: getDirectReadRegion leaves getAvailable() unchanged; advanceReadPos(n)
\* with n <= available lowers getAvailable() by n, the pop that follows
\* returns the bytes behind the n skipped ones in pushed order, advancing by
\* everything available leaves the ring empty, and the advance leaves the
\* ring in the state pop(n) leaves it in
C18_ConsumeOnAdvance ==
    [][/\ call'.op = "getDirectReadRegion" =>
             (getAvailable' = getAvailable /\ Unread' = Unread)
       /\ call'.op = "advanceReadPos" =>
             LET n == call'.len
                 avail == getAvailable
                 rest == SubSeq(Unread, n + 1, avail) IN
             /\ getAvailable' = avail - n
             /\ Unread' = rest
             /\ (popResult(MaxLen).dest)' = SubSeq(rest, 1, Min(MaxLen, avail - n))
             /\ n = avail => getAvailable' = 0
             /\ readPos_' = popResult(n).rp
             /\ UNCHANGED <<size_, mask_, buffer_, writePos_, silenceByte_, s24Vars>>
      ]_vars

\* C18 witness: an advance, after a region was handed out, that took the
\* read cursor across the end of the storage and left bytes unread
C18_Witness ==
    /\ call.op = "advanceReadPos"
    /\ phase = "done"
    /\ call.len >= 2
    /\ readPos_ < call.len
    /\ readPos_ > 0
    /\ getAvailable > 0

\* C19: resize(newSize, silenceByte), whatever the state of the ring before
\* it, makes the capacity the smallest power of two >= newSize and never
\* below 2, sets both cursors to zero, so that getAvailable() is 0 and
\* getFreeSpace() is capacity - 1, leaves every byte of the storage equal to
\* silenceByte, and resets the alignment state: mode Unknown, no hint, not
\* confirmed, deferred counter 0
C19_Resize ==
    [][call'.op = "resize" =>
          LET newSize == call'.len
              silenceByte == call'.ch IN
          /\ size_' >= 2 /\ size_' >= newSize
          /\ \E k \in 1..(MaxNewSize + 1) : size_' = 2^k
          /\ \A k \in 1..(MaxNewSize + 1) : 2^k >= newSize => size_' <= 2^k
          /\ writePos_' = 0 /\ readPos_' = 0
          /\ getAvailable' = 0
          /\ getFreeSpace' = size_' - 1
          /\ \A i \in 0..(size_' - 1) : BufAt(i)' = silenceByte
          /\ m_s24PackMode' = "Unknown" /\ m_s24Hint' = "Unknown"
          /\ ~m_s24DetectionConfirmed'
          /\ m_deferredSampleCount' = 0
      ]_vars

\* C19 witness: resize(5, 0x69) has made a ring of 8 bytes of 0x69
C19_Witness ==
    /\ call.op = "resize"
    /\ call.len = 5 /\ call.ch = 105
    /\ size_ = 8
    /\ \A i \in 0..7 : BufAt(i) = 105
    /\ getFreeSpace = 7

\* C20: clear() sets both cursors to zero and resets the alignment state
\* (mode, hint, confirmed flag, deferred counter) and leaves the capacity,
\* the silence byte and every byte of the storage as they were
C20_Clear ==
    [][call'.op = "clear" =>
          /\ writePos_' = 0 /\ readPos_' = 0
          /\ m_s24PackMode' = "Unknown" /\ m_s24Hint' = "Unknown"
          /\ ~m_s24DetectionConfirmed'
          /\ m_deferredSampleCount' = 0
          /\ UNCHANGED <<size_, mask_, silenceByte_>>
          /\ \A i \in 0..(size_ - 1) : BufAt(i)' = BufAt(i)
      ]_vars

\* C20 witness: clear() on a ring of 8 bytes whose storage holds stream bytes
C20_Witness ==
    /\ call.op = "clear"
    /\ size_ = 8
    /\ writePos_ = 0 /\ readPos_ = 0
    /\ m_s24Hint = "Unknown"
    /\ \E i \in 0..7 : BufAt(i) # silenceByte_

(***************************************************************************)
(* DirettaRenderer: chunk size selection in the audio thread               *)
(***************************************************************************)
PCM_CHUNK_LOW == 2048
PCM_CHUNK_MID == 4096
PCM_CHUNK_HIGH == 8192
DSD_CHUNK == 32768
\* sleep_for(std::chrono::milliseconds(10)), in microseconds
IdleSleepUs == 10000

\* variant: a DSD format is sized by its rate, like PCM
selectChunkSize_ByRate(sampleRate, isDSD) ==
    IF sampleRate <= 48000 THEN PCM_CHUNK_LOW
    ELSE IF sampleRate <= 96000 THEN PCM_CHUNK_MID
    ELSE PCM_CHUNK_HIGH

\* DirettaRenderer::selectChunkSize
selectChunkSize(sampleRate, isDSD) ==
    IF isDSD THEN DSD_CHUNK
    ELSE IF sampleRate <= 48000 THEN PCM_CHUNK_LOW
    ELSE IF sampleRate <= 96000 THEN PCM_CHUNK_MID
    ELSE PCM_CHUNK_HIGH

\* sample rates of the tracks the engine opens: the usual PCM rates, the
\* rates next to the tier limits, and the DSD64 bit rate
TrackRates == {8000, 44100, 48000, 48001, 88200, 96000, 96001, 176400, 2822400}

\* the tracks the engine opens while the audio thread runs
ChunkTracks == {[sampleRate |-> 44100, isDSD |-> FALSE],
                [sampleRate |-> 96001, isDSD |-> FALSE],
                [sampleRate |-> 2822400, isDSD |-> TRUE]}

\* the rest of the model is at rest while the renderer runs
RingIdle ==
    /\ InitRing /\ InitObs /\ InitThreads /\ InitConvVars
    /\ seq = 0
    /\ phase = "renderer"
    /\ script = NoScript
    /\ chunks = <<>>

RingFrame ==
    UNCHANGED <<ringVars, obsVars, seq, phase, script, chunks, threadVars, convVars>>

InitChunk == RingIdle /\ InitRend

ChunkFrame ==
    /\ RingFrame
    /\ UNCHANGED <<m_callbackRunning, m_shutdownRequested, engine, cb, ctl, upnp, sync>>

\* the engine opens a track (openCurrentTrack / transitionToNextTrack)
TrackOpened(sampleRate, isDSD) ==
    /\ m_currentTrackInfo' = [sampleRate |-> sampleRate, isDSD |-> isDSD]
    /\ UNCHANGED <<m_state, audio>>
    /\ ChunkFrame

\* play(), pause(), stop() of the engine
EngineState(state) ==
    /\ m_state' = state
    /\ UNCHANGED <<m_currentTrackInfo, audio>>
    /\ ChunkFrame

\* (currentChunk * 1000000ULL) / sampleRate in 64-bit arithmetic: the
\* quotient q and remainder r of chunk / sampleRate, scaled by ten k times
RECURSIVE MulDiv10(_, _, _, _)
MulDiv10(q, r, c, k) ==
    IF k = 0 THEN q
    ELSE MulDiv10(q * 10 + ((r * 10) \div c), (r * 10) % c, c, k - 1)

periodMicros(currentChunk, sampleRate) ==
    MulDiv10(currentChunk \div sampleRate, currentChunk % sampleRate, sampleRate, 6)

\* process() returns at once, exactly one period later, or two periods later
ProcessTimes(period) == {0, period, 2 * period}

\* the notes about the iteration that has ended are dropped
NewIteration == [audio EXCEPT !.ran = FALSE, !.reselected = FALSE,
                              !.prevWake = 0, !.after = 0, !.slept = FALSE]

\* audioThreadFunc, top of the loop: the state check; sleep_for(10 ms) and
\* nextWake = Clock::now() when the engine is not playing
AudioCheckState ==
    /\ audio.pc = "loop"
    /\ audio.now < MaxClock
    /\ audio' = IF m_state # "PLAYING"
                THEN [NewIteration EXCEPT !.lastSampleRate = 0, !.state = m_state,
                                          !.now = audio.now + IdleSleepUs,
                                          !.nextWake = audio.now + IdleSleepUs]
                ELSE [NewIteration EXCEPT !.pc = "rate", !.state = m_state]
    /\ UNCHANGED <<m_state, m_currentTrackInfo>>
    /\ ChunkFrame

\* audioThreadFunc: sampleRate = trackInfo.sampleRate
AudioReadRate ==
    /\ audio.pc = "rate"
    /\ audio' = IF m_currentTrackInfo.sampleRate = 0
                THEN [audio EXCEPT !.sampleRate = 0, !.pc = "loop",
                                   !.now = audio.now + IdleSleepUs]
                ELSE [audio EXCEPT !.sampleRate = m_currentTrackInfo.sampleRate,
                                   !.pc = "select"]
    /\ UNCHANGED <<m_state, m_currentTrackInfo>>
    /\ ChunkFrame

\* variant: the chunk and the period are selected once, for the first rate
AudioSelect_Once ==
    /\ audio.pc = "select"
    /\ audio' = IF audio.currentChunk = 0
                THEN [audio EXCEPT
                        !.currentChunk = selectChunkSize(audio.sampleRate,
                                                         m_currentTrackInfo.isDSD),
                        !.period = periodMicros(selectChunkSize(audio.sampleRate,
                                                   m_currentTrackInfo.isDSD),
                                                audio.sampleRate),
                        !.lastSampleRate = audio.sampleRate,
                        !.isDSD = m_currentTrackInfo.isDSD,
                        !.nextWake = audio.now,
                        !.reselected = TRUE,
                        !.pc = "process"]
                ELSE [audio EXCEPT !.pc = "process", !.reselected = FALSE]
    /\ UNCHANGED <<m_state, m_currentTrackInfo>>
    /\ ChunkFrame

\* audioThreadFunc: the chunk and the period are selected again only when
\* the rate changed, and the cadence restarts from now
AudioSelect ==
    /\ audio.pc = "select"
    /\ audio' = IF audio.sampleRate # audio.lastSampleRate
                THEN [audio EXCEPT
                        !.currentChunk = selectChunkSize(audio.sampleRate,
                                                         m_currentTrackInfo.isDSD),
                        !.period = periodMicros(selectChunkSize(audio.sampleRate,
                                                   m_currentTrackInfo.isDSD),
                                                audio.sampleRate),
                        !.lastSampleRate = audio.sampleRate,
                        !.isDSD = m_currentTrackInfo.isDSD,
                        !.nextWake = audio.now,
                        !.reselected = TRUE,
                        !.pc = "process"]
                ELSE [audio EXCEPT !.pc = "process", !.reselected = FALSE]
    /\ UNCHANGED <<m_state, m_currentTrackInfo>>
    /\ ChunkFrame

\* variant: a relative sleep of one period after the work
AudioProcess_RelativeSleep(elapsed) ==
    /\ audio.pc = "process"
    /\ audio' = [audio EXCEPT !.arg = audio.currentChunk, !.pc = "loop",
                              !.ran = TRUE,
                              !.prevWake = audio.nextWake,
                              !.after = audio.now + elapsed,
                              !.nextWake = audio.now + elapsed + audio.period,
                              !.now = audio.now + elapsed + audio.period,
                              !.slept = TRUE]
    /\ UNCHANGED <<m_state, m_currentTrackInfo>>
    /\ ChunkFrame

\* audioThreadFunc: m_audioEngine->process(currentChunk), which takes
\* elapsed microseconds; then nextWake += period, and sleep_until(nextWake)
\* if it is after now, else nextWake = now
AudioProcess(elapsed) ==
    /\ audio.pc = "process"
    /\ LET after == audio.now + elapsed
           wake == audio.nextWake + audio.period
       IN audio' = [audio EXCEPT !.arg = audio.currentChunk, !.pc = "loop",
                                 !.ran = TRUE,
                                 !.prevWake = audio.nextWake,
                                 !.after = after,
                                 !.nextWake = IF wake > after THEN wake ELSE after,
                                 !.now = IF wake > after THEN wake ELSE after,
                                 !.slept = wake > after]
    /\ UNCHANGED <<m_state, m_currentTrackInfo>>
    /\ ChunkFrame

NextChunk ==
    \/ \E t \in ChunkTracks : TrackOpened(t.sampleRate, t.isDSD)
    \/ \E st \in {"STOPPED", "PLAYING", "PAUSED"} : EngineState(st)
    \/ AudioCheckState
    \/ AudioReadRate
    \/ AudioSelect
    \/ \E elapsed \in ProcessTimes(audio.period) : AudioProcess(elapsed)

SpecChunk == InitChunk /\ [][NextChunk]_vars

\* C30: the chunk size selected for a format is 32768 for every DSD format,
\* 2048 for PCM up to 48000 Hz, 4096 for PCM above 48000 and up to 96000 Hz,
\* 8192 for PCM above 96000 Hz, and process() is never given another size
C30_ChunkSizes ==
    /\ \A r \in TrackRates :
          /\ selectChunkSize(r, TRUE) = 32768
          /\ selectChunkSize(r, FALSE) =
                IF r <= 48000 THEN 2048 ELSE IF r <= 96000 THEN 4096 ELSE 8192
    /\ audio.pc = "process" => audio.currentChunk \in {2048, 4096, 8192, 32768}
    /\ audio.arg \in {0, 2048, 4096, 8192, 32768}

\* C30 witness: process() was given the DSD size, and the audio thread has
\* since selected the size of PCM at 96001 Hz
C30_Witness ==
    /\ audio.arg = 32768
    /\ audio.pc = "process"
    /\ audio.sampleRate = 96001
    /\ audio.currentChunk = 8192

(***************************************************************************)
(* DirettaRenderer: onSeek and parseTimeString.  A string is a sequence of *)
(* one-character strings.                                                  *)
(***************************************************************************)
DigitChars == <<"0", "1", "2", "3", "4", "5", "6", "7", "8", "9">>

IsDigit(c) == \E d \in 1..10 : DigitChars[d] = c
DigitValue(c) == (CHOOSE d \in 1..10 : DigitChars[d] = c) - 1

\* the decimal text of n, and n as a field of two digits
RECURSIVE Decimal(_)
Decimal(n) ==
    IF n < 10 THEN <<DigitChars[n + 1]>>
    ELSE Decimal(n \div 10) \o <<DigitChars[(n % 10) + 1]>>

TwoDigits(n) == <<DigitChars[(n \div 10) + 1], DigitChars[(n % 10) + 1]>>

\* the number a %lf conversion (or std::stod) reads at position pos: the
\* longest run of digits; ok is false when there is no digit at pos
RECURSIVE ScanDigits(_, _, _)
ScanDigits(str, pos, acc) ==
    IF pos <= Len(str) /\ IsDigit(str[pos])
    THEN ScanDigits(str, pos + 1, 10 * acc + DigitValue(str[pos]))
    ELSE [value |-> acc, next |-> pos]

ScanNumber(str, pos) ==
    IF pos <= Len(str) /\ IsDigit(str[pos])
    THEN [ok |-> TRUE] @@ ScanDigits(str, pos, 0)
    ELSE [ok |-> FALSE, value |-> 0, next |-> pos]

\* sscanf(timeStr, "%lf:%lf:%lf", &hours, &minutes, &seconds): the number of
\* conversions made and the three variables, which start at 0
sscanf3(str) ==
    LET a == ScanNumber(str, 1)
        colon(pos) == pos <= Len(str) /\ str[pos] = ":"
        b == ScanNumber(str, a.next + 1)
        c == ScanNumber(str, b.next + 1)
    IN IF ~a.ok THEN [n |-> 0, hours |-> 0, minutes |-> 0, seconds |-> 0]
       ELSE IF ~(colon(a.next) /\ b.ok)
       THEN [n |-> 1, hours |-> a.value, minutes |-> 0, seconds |-> 0]
       ELSE IF ~(colon(b.next) /\ c.ok)
       THEN [n |-> 2, hours |-> a.value, minutes |-> b.value, seconds |-> 0]
       ELSE [n |-> 3, hours |-> a.value, minutes |-> b.value, seconds |-> c.value]

\* std::stod(timeStr), 0.0 when it throws
stod(str) == IF ScanNumber(str, 1).ok THEN ScanNumber(str, 1).value ELSE 0

\* parseTimeString(timeStr)
parseTimeString(timeStr) ==
    LET r == sscanf3(timeStr)
    IN IF r.n >= 2
       THEN r.hours * 3600 + r.minutes * 60 + r.seconds
       ELSE stod(timeStr)

\* the times a controller seeks to, and the three ways it writes them
SeekHours == 0..3
SeekMinutes == {0, 1, 2, 30, 59}
SeekSeconds == {0, 1, 30, 59}
SeekPlain == {0, 7, 59, 60, 90, 150, 3600, 3723}

TimeString(form, h, m, s) ==
    CASE form = "HH:MM:SS" -> TwoDigits(h) \o <<":">> \o TwoDigits(m) \o <<":">> \o TwoDigits(s)
      [] form = "MM:SS" -> TwoDigits(m) \o <<":">> \o TwoDigits(s)
      [] form = "seconds" -> Decimal(s)
      [] OTHER -> <<"x">>

InitSeek == RingIdle /\ InitRend

SeekFrame ==
    /\ RingFrame
    /\ UNCHANGED <<m_callbackRunning, m_shutdownRequested, m_state,
                   m_currentTrackInfo, engine, audio, cb, upnp, sync>>

\* callbacks.onSeek(target): m_audioEngine->seek(parseTimeString(target));
\* ctl keeps the time the controller meant and the seconds given to seek()
OnSeek(form, h, m, s) ==
    /\ ctl' = [pc |-> "idle", op |-> "onSeek", form |-> form,
               h |-> h, m |-> m, s |-> s,
               target |-> TimeString(form, h, m, s),
               seek |-> parseTimeString(TimeString(form, h, m, s))]
    /\ SeekFrame

NextSeek ==
    \/ \E h \in SeekHours, m \in SeekMinutes, s \in SeekSeconds :
          OnSeek("HH:MM:SS", h, m, s)
    \/ \E m \in SeekMinutes, s \in SeekSeconds : OnSeek("MM:SS", 0, m, s)
    \/ \E s \in SeekPlain : OnSeek("seconds", 0, 0, s)
    \/ OnSeek("none", 0, 0, 0)

SpecSeek == InitSeek /\ [][NextSeek]_vars

\* C28: onSeek seeks to the time its argument denotes: "HH:MM:SS" to
\* HH*3600 + MM*60 + SS seconds, "MM:SS" to MM*60 + SS seconds, a plain
\* seconds value to that number of seconds
C28_SeekFormats ==
    (ctl.pc = "idle" /\ ctl.op = "onSeek") =>
        /\ ctl.form = "HH:MM:SS" => ctl.seek = ctl.h * 3600 + ctl.m * 60 + ctl.s
        /\ ctl.form = "MM:SS" => ctl.seek = ctl.m * 60 + ctl.s
        /\ ctl.form = "seconds" => ctl.seek = ctl.s

\* C28: onSeek("02:30") has called seek(9000)
C28_Witness ==
    /\ ctl.op = "onSeek"
    /\ ctl.target = <<"0", "2", ":", "3", "0">>
    /\ ctl.seek = 9000

(***************************************************************************)
(* DirettaRenderer: the delivery callback (the lambda given to             *)
(* setAudioCallback).  cb is one invocation: its position, its arguments,  *)
(* the locals of its send loop, what the last sendAudio was offered (the   *)
(* byte range from..to of the chunk) and accepted, and whether it has      *)
(* called open / stopPlayback / sendAudio on the adapter.  duringWait      *)
(* notes that the invocation set m_callbackRunning while a                 *)
(* waitForCallbackComplete was in progress and, once it is past the entry  *)
(* check, that this wait returned without its timeout.                     *)
(***************************************************************************)
MICROSLEEP_US == 500
MAX_WAIT_MS == 20
MAX_RETRIES == (MAX_WAIT_MS * 1000) \div MICROSLEEP_US
\* maxRetries of the DSD loop
maxRetries == 100

\* the chunks process() delivers have at most MaxChunkFrames PCM samples
MaxChunkFrames == 2

Formats ==
    { [sampleRate |-> 44100, bitDepth |-> 16, channels |-> 2, isDSD |-> FALSE,
       dsdFormat |-> "DSF"],
      [sampleRate |-> 96000, bitDepth |-> 24, channels |-> 1, isDSD |-> FALSE,
       dsdFormat |-> "DSF"],
      [sampleRate |-> 2822400, bitDepth |-> 1, channels |-> 2, isDSD |-> TRUE,
       dsdFormat |-> "DSF"],
      [sampleRate |-> 2822400, bitDepth |-> 1, channels |-> 2, isDSD |-> TRUE,
       dsdFormat |-> "DFF"] }

\* AudioFormat() default
DefaultFormat == [sampleRate |-> 44100, bitDepth |-> 16, channels |-> 2, isDSD |-> FALSE,
                  dsdFormat |-> "DSF"]

\* samples values of a chunk: PCM samples, or DSD bits per channel
ChunkSamples(format) == IF format.isDSD THEN {8, 16} ELSE 1..MaxChunkFrames

\* bytesPerSample of the PCM loop
BytesPerSample(format) ==
    IF format.bitDepth = 24 \/ format.bitDepth = 32
    THEN 4 * format.channels
    ELSE (format.bitDepth \div 8) * format.channels

\* the bytes of the chunk: buffer.size()
ChunkBytes(format, samples) ==
    IF format.isDSD THEN (samples * format.channels) \div 8
    ELSE samples * BytesPerSample(format)

\* no chunk is larger than this
MaxChunkBytes == 4 * MaxChunkFrames

\* the bytes sendAudio(data, numSamples) is offered
OfferedBytes(format, numSamples) == ChunkBytes(format, numSamples)

\* sendAudio: one attempt, any count from nothing to all that was offered
SendAudioResults(format, numSamples) == 0..OfferedBytes(format, numSamples)

\* audioData + sent: a pointer past the end of the chunk is not a valid one
PastEnd(total) == total + 1
Advance(offset, sent, total) ==
    IF offset + sent > total THEN PastEnd(total) ELSE offset + sent

SyncClosed == [open |-> FALSE, playing |-> FALSE, format |-> DefaultFormat]

CbFrame ==
    /\ RingFrame
    /\ UNCHANGED <<m_shutdownRequested, m_state, m_currentTrackInfo, engine,
                   audio, ctl, upnp>>

\* process() invokes the callback with a chunk
CbInvoke(format, samples) ==
    /\ cb.pc = "idle"
    /\ cb' = [pc |-> "enter", format |-> format, samples |-> samples,
              remaining |-> 0, offset |-> 0, retry |-> 0, sent |-> 0,
              critical |-> FALSE, from |-> 0, to |-> 0, accepted |-> 0,
              attempts |-> 0, touched |-> FALSE, duringWait |-> FALSE,
              slept |-> 0, calls |-> <<>>, before |-> sync,
              result |-> "none"]
    /\ UNCHANGED <<m_callbackRunning, sync>>
    /\ CbFrame

\* m_callbackRunning.store(true)
CbSetRunning ==
    /\ cb.pc = "enter"
    /\ m_callbackRunning' = TRUE
    /\ cb' = [cb EXCEPT !.pc = "check", !.duringWait = (ctl.pc # "idle")]
    /\ UNCHANGED sync
    /\ CbFrame

\* if (m_shutdownRequested.load()) { m_callbackRunning.store(false); return false; }
CbCheckShutdown ==
    /\ cb.pc = "check"
    /\ IF m_shutdownRequested
       THEN /\ m_callbackRunning' = FALSE
            /\ cb' = [cb EXCEPT !.pc = "idle", !.result = "rejected"]
       ELSE /\ UNCHANGED m_callbackRunning
            /\ cb' = [cb EXCEPT !.pc = "open",
                                !.duringWait = (cb.duringWait /\ ~ctl.timedOut)]
    /\ UNCHANGED sync
    /\ CbFrame

\* the format change check of the callback
FormatChanged(current, format) ==
    \/ current.sampleRate # format.sampleRate
    \/ current.bitDepth # format.bitDepth
    \/ current.channels # format.channels
    \/ current.isDSD # format.isDSD

\* variant: only isPlaying() is looked at
OpenPlan_NoFormatCheck(s, format) == [stop |-> FALSE, open |-> ~s.playing]

\* needsOpen = !isPlaying(); with the adapter playing and open, a changed
\* format asks for stopPlayback(true) and open()
OpenPlan(s, format) ==
    LET changed == s.playing /\ s.open /\ FormatChanged(s.format, format)
    IN [stop |-> changed, open |-> ~s.playing \/ changed]

\* the open / resume block: stopPlayback(true) on a format change, open()
\* when needed; openOk is what open() returns.  Then the locals of the
\* send loop; critical is bufferLevel < CRITICAL_BUFFER_LEVEL.  before is
\* the adapter as the callback found it, calls the adapter calls it made.
CbOpen(openOk, critical) ==
    /\ cb.pc = "open"
    /\ LET plan == OpenPlan(sync, cb.format)
           stopped == IF plan.stop THEN [sync EXCEPT !.playing = FALSE] ELSE sync
           calls == (IF plan.stop THEN <<"stopPlayback">> ELSE <<>>)
                    \o (IF plan.open THEN <<"open">> ELSE <<>>)
       IN IF plan.open /\ ~openOk
          THEN /\ sync' = stopped
               /\ m_callbackRunning' = FALSE
               /\ cb' = [cb EXCEPT !.pc = "idle", !.touched = TRUE,
                                   !.before = sync, !.calls = calls,
                                   !.result = "open failed"]
          ELSE /\ sync' = IF plan.open
                          THEN [stopped EXCEPT !.open = TRUE, !.playing = TRUE,
                                               !.format = cb.format]
                          ELSE sync
               /\ UNCHANGED m_callbackRunning
               /\ cb' = [cb EXCEPT !.pc = "send",
                                   !.touched = plan.open,
                                   !.before = sync, !.calls = calls,
                                   !.remaining = cb.samples,
                                   !.critical = critical /\ ~cb.format.isDSD]
    /\ CbFrame

\* the DSD loop goes on while (sent == 0 && retryCount < maxRetries), the PCM
\* loop while (remainingSamples > 0 && retryCount < MAX_RETRIES) and no
\* early return was taken
LoopGoesOn ==
    IF cb.format.isDSD
    THEN cb.sent = 0 /\ cb.retry < maxRetries
    ELSE cb.remaining > 0 /\ cb.retry < MAX_RETRIES /\ cb.result # "early return"

\* variant: a zero-byte attempt is always slept on and retried
SendPcm_NoAbandon(sent) ==
    IF sent > 0
    THEN [cb EXCEPT !.remaining = cb.remaining - (sent \div BytesPerSample(cb.format)),
                    !.offset = Advance(cb.offset, sent,
                                       ChunkBytes(cb.format, cb.samples)),
                    !.retry = 0, !.slept = 0]
    ELSE [cb EXCEPT !.retry = cb.retry + 1, !.slept = MICROSLEEP_US]

\* one iteration of the PCM loop after sendAudio returned sent
SendPcm(sent) ==
    IF sent > 0
    THEN [cb EXCEPT !.remaining = cb.remaining - (sent \div BytesPerSample(cb.format)),
                    !.offset = Advance(cb.offset, sent,
                                       ChunkBytes(cb.format, cb.samples)),
                    !.retry = 0, !.slept = 0]
    ELSE IF cb.critical THEN [cb EXCEPT !.result = "early return", !.slept = 0]
         ELSE [cb EXCEPT !.retry = cb.retry + 1, !.slept = MICROSLEEP_US]

\* the DSD loop sleeps 5 ms after a zero-byte attempt
DsdSleepUs == 5000

\* one iteration of the DSD loop after sendAudio returned sent
SendDsd(sent) ==
    IF sent = 0
    THEN [cb EXCEPT !.sent = 0, !.retry = cb.retry + 1, !.slept = DsdSleepUs]
    ELSE [cb EXCEPT !.sent = sent, !.slept = 0]

\* the attempts of one invocation are counted up to MaxAttempts
MaxAttempts == 3

\* one iteration of a send loop: sendAudio(audioData, remainingSamples), or
\* sendAudio(buffer.data(), samples) for DSD, then the loop body
CbSend(sent) ==
    /\ cb.pc = "send"
    /\ LoopGoesOn
    /\ LET numSamples == IF cb.format.isDSD THEN cb.samples ELSE cb.remaining
           from == IF cb.format.isDSD THEN 0 ELSE cb.offset
           after == IF cb.format.isDSD THEN SendDsd(sent) ELSE SendPcm(sent)
       IN /\ sent \in SendAudioResults(cb.format, numSamples)
          /\ cb' = [after EXCEPT !.from = from,
                                 !.to = from + OfferedBytes(cb.format, numSamples),
                                 !.accepted = sent,
                                 !.attempts = Min(cb.attempts + 1, MaxAttempts),
                                 !.calls = IF cb.attempts = 0
                                           THEN Append(cb.calls, "sendAudio")
                                           ELSE cb.calls,
                                 !.touched = TRUE]
    /\ UNCHANGED <<m_callbackRunning, sync>>
    /\ CbFrame

\* variant: the flag is left set on the normal return
CbReturn_FlagKept ==
    /\ cb.pc = "send"
    /\ ~LoopGoesOn
    /\ cb' = [cb EXCEPT !.pc = "idle", !.result = "returned"]
    /\ UNCHANGED <<m_callbackRunning, sync>>
    /\ CbFrame

\* the loop is left: return true, and Guard's destructor clears the flag
CbReturn ==
    /\ cb.pc = "send"
    /\ ~LoopGoesOn
    /\ m_callbackRunning' = FALSE
    /\ cb' = [cb EXCEPT !.pc = "idle", !.result = "returned"]
    /\ UNCHANGED sync
    /\ CbFrame

CbStep ==
    \/ CbSetRunning
    \/ CbCheckShutdown
    \/ \E openOk \in BOOLEAN, critical \in BOOLEAN : CbOpen(openOk, critical)
    \/ \E sent \in 0..MaxChunkBytes : CbSend(sent)
    \/ CbReturn

InitDelivery ==
    /\ RingIdle
    /\ m_callbackRunning = FALSE
    /\ m_shutdownRequested = FALSE
    /\ m_state = "PLAYING"
    /\ m_currentTrackInfo = NoTrack
    /\ engine = NoEngine
    /\ audio = AudioIdle
    /\ cb = CbIdle
    /\ ctl = CtlIdle
    /\ upnp = NoUpnp
    /\ sync = SyncClosed

NextDelivery ==
    \/ \E format \in Formats : \E samples \in ChunkSamples(format) :
          CbInvoke(format, samples)
    \/ CbStep

SpecDelivery == InitDelivery /\ [][NextDelivery]_vars

\* the audio thread keeps running the callback
SpecDeliveryFair == SpecDelivery /\ WF_vars(CbStep)

\* the last sendAudio accepted part of what it was offered
PartlyAccepted == cb.pc = "send" /\ 0 < cb.accepted /\ cb.accepted < cb.to - cb.from

\* the bytes of the chunk the last sendAudio was offered and did not accept
\* are those from RemainderFrom up to RemainderTo
RemainderFrom == cb.from + cb.accepted
RemainderTo == Min(cb.to, ChunkBytes(cb.format, cb.samples))

\* C21: after a sendAudio that accepted only part of the bytes it was
\* offered, the invocation makes another attempt, which offers all of the
\* bytes of the chunk that were not accepted; for DSD chunks as for PCM chunks
C21_RemainderOfferedAgain ==
    [][(PartlyAccepted /\ RemainderFrom < RemainderTo /\ cb' # cb) =>
          /\ cb'.pc = "send"
          /\ cb'.from <= RemainderFrom
          /\ cb'.to >= RemainderTo
      ]_vars

\* C21: a DSD invocation has returned after a single sendAudio that accepted
\* 1 of the 4 bytes of its chunk
C21_Witness ==
    /\ cb.pc = "idle" /\ cb.result = "returned"
    /\ cb.format.isDSD
    /\ cb.attempts = 1
    /\ cb.accepted = 1 /\ cb.to - cb.from = 4

\* C22: every invocation of the callback that reaches its send loop returns
C22_SendLoopsBounded == (cb.pc = "send") ~> (cb.pc = "idle")

\* C22: a PCM invocation whose sendAudio calls have taken bytes without
\* taking a whole sample: all samples remain, the retry count is 0 and the
\* data pointer has left the chunk
C22_Witness ==
    /\ cb.pc = "send"
    /\ ~cb.format.isDSD
    /\ cb.remaining = cb.samples
    /\ cb.retry = 0
    /\ cb.attempts = MaxAttempts
    /\ cb.offset = PastEnd(ChunkBytes(cb.format, cb.samples))

(***************************************************************************)
(* DirettaRenderer::waitForCallbackComplete, run by the control thread     *)
(* (onStop, onSetURI) against the audio thread's callback.  The steady     *)
(* clock is counted in spin iterations: the 5 seconds have elapsed when    *)
(* more than SpinLimit iterations have been made.                          *)
(***************************************************************************)
SpinLimit == 2

\* the callback has passed its entry check and has not returned
PastEntryCheck(pc) == pc \in {"open", "send"}

WaitFrame ==
    /\ RingFrame
    /\ UNCHANGED <<m_state, m_currentTrackInfo, engine, audio, cb, upnp, sync>>

\* m_shutdownRequested.store(true); start = now()
WaitBegin ==
    /\ ctl.pc = "idle"
    /\ m_shutdownRequested' = TRUE
    /\ ctl' = [pc |-> "spin", op |-> "waitForCallbackComplete", elapsed |-> 0,
               timedOut |-> FALSE, cbAtReturn |-> "none"]
    /\ UNCHANGED m_callbackRunning
    /\ WaitFrame

\* variant: the loop has no timeout
SpinNext_NoTimeout(running, elapsed) ==
    IF ~running
    THEN [pc |-> "clear", elapsed |-> elapsed, timedOut |-> FALSE]
    ELSE [pc |-> "spin", elapsed |-> elapsed, timedOut |-> FALSE]

\* one evaluation of while (m_callbackRunning.load()) and its body: yield,
\* elapsed = now() - start, and on elapsed > 5 s the flag is reset and the
\* loop left
SpinNext(running, elapsed) ==
    IF ~running
    THEN [pc |-> "clear", elapsed |-> elapsed, timedOut |-> FALSE]
    ELSE IF elapsed + 1 > SpinLimit
         THEN [pc |-> "clear", elapsed |-> elapsed + 1, timedOut |-> TRUE]
         ELSE [pc |-> "spin", elapsed |-> elapsed + 1, timedOut |-> FALSE]

WaitSpin ==
    /\ ctl.pc = "spin"
    /\ LET next == SpinNext(m_callbackRunning, ctl.elapsed)
       IN /\ ctl' = [ctl EXCEPT !.pc = next.pc, !.elapsed = next.elapsed,
                                !.timedOut = next.timedOut]
          /\ m_callbackRunning' = IF next.timedOut THEN FALSE ELSE m_callbackRunning
    /\ UNCHANGED m_shutdownRequested
    /\ WaitFrame

\* m_shutdownRequested.store(false) and return; cbAtReturn notes where the
\* callback is at that moment
WaitEnd ==
    /\ ctl.pc = "clear"
    /\ m_shutdownRequested' = FALSE
    /\ ctl' = [ctl EXCEPT !.pc = "idle", !.cbAtReturn = cb.pc]
    /\ UNCHANGED m_callbackRunning
    /\ WaitFrame

WaitStep == WaitSpin \/ WaitEnd

InitShutdown == InitDelivery

\* the chunks of the handshake: a stereo PCM and a DSD track, smallest chunk
ShutdownFormats == {f \in Formats : f.channels = 2 /\ f.dsdFormat = "DSF"}

NextShutdown ==
    \/ \E format \in ShutdownFormats :
          CbInvoke(format, CHOOSE n \in ChunkSamples(format) :
                               \A m \in ChunkSamples(format) : n <= m)
    \/ CbStep
    \/ WaitBegin
    \/ WaitStep

SpecShutdown == InitShutdown /\ [][NextShutdown]_vars

\* the control thread keeps running its loop
SpecShutdownFair == SpecShutdown /\ WF_vars(WaitStep)

\* C23: a callback invocation that sets m_callbackRunning while a
\* waitForCallbackComplete is in progress either sees the shutdown request
\* at its entry check and returns without touching the adapter, or is waited
\* for; and when waitForCallbackComplete returns without having hit its time
\* bound, no invocation that passed the entry check is still executing
C23_ShutdownHandshake ==
    /\ PastEntryCheck(cb.pc) => ~cb.duringWait
    /\ (ctl.op = "waitForCallbackComplete" /\ ctl.pc = "idle" /\ ~ctl.timedOut)
           => ~PastEntryCheck(ctl.cbAtReturn)

\* C23: waitForCallbackComplete has returned without a timeout, after a
\* single look at m_callbackRunning, while the callback was between setting
\* its flag and its entry check; the callback has since passed the check and
\* called sendAudio
C23_Witness ==
    /\ ctl.op = "waitForCallbackComplete" /\ ctl.pc = "idle"
    /\ ~ctl.timedOut /\ ctl.elapsed = 0
    /\ ctl.cbAtReturn = "check"
    /\ cb.pc = "send" /\ cb.duringWait /\ cb.touched /\ cb.attempts >= 1
    /\ m_callbackRunning /\ ~m_shutdownRequested

\* C24: a waitForCallbackComplete that has begun returns, and when it has
\* returned m_shutdownRequested is false
C24_WaitTerminates ==
    (ctl.pc = "spin") ~> (ctl.pc = "idle" /\ ~m_shutdownRequested)

\* C24: waitForCallbackComplete has returned through its timeout, with the
\* callback still in its send loop
C24_Witness ==
    /\ ctl.op = "waitForCallbackComplete" /\ ctl.pc = "idle"
    /\ ctl.timedOut /\ ctl.elapsed = SpinLimit + 1
    /\ PastEntryCheck(ctl.cbAtReturn)
    /\ ~m_shutdownRequested /\ ~m_callbackRunning

(***************************************************************************)
(* Transport: the controller's handlers (onSetURI, onSetNextURI, onPlay,   *)
(* onPause, onStop), the engine's process() with its end-of-track          *)
(* handling, and the renderer's track-change and track-end callbacks.      *)
(* A handler and a process() call note in ctl and audio the notifications  *)
(* they sent (sent) and the states they left.  engine.played is the        *)
(* samples delivered since the current URI was set, each a track and an    *)
(* index in it.                                                            *)
(***************************************************************************)
\* the controller's URIs; 0 is the empty string
URIs == 1..2
\* samples in a track
TrackLen == 2
\* samples delivered between two URI changes
MaxPlayed == 5

TrackChange(uri) == [kind |-> "TrackChange", arg |-> uri]
StateChange(state) == [kind |-> "State", arg |-> state]

\* notifyStateChange sets the transport state the controller reads and
\* sends an event; notifyTrackChange sends an event
RECURSIVE Notify(_, _)
Notify(u, notes) ==
    IF notes = <<>> THEN u
    ELSE Notify([transportState |-> IF Head(notes).kind = "State"
                                    THEN Head(notes).arg ELSE u.transportState,
                 events |-> Append(u.events, Head(notes))],
                Tail(notes))

\* a notifying operation starts a new batch of events
Notified(u, notes) == Notify([u EXCEPT !.events = <<>>], notes)

EngineIdle ==
    [pc |-> "idle", currentURI |-> 0, nextURI |-> 0, current |-> 0, next |-> 0,
     pos |-> 0, isDraining |-> FALSE, trackEnds |-> 0, played |-> <<>>]

AudioProcessIdle ==
    [pc |-> "loop", op |-> "none", sent |-> <<>>, stateAfter |-> "STOPPED",
     transportAfter |-> "STOPPED", from |-> 0, to |-> 0, current |-> 0]

SyncIdle == [open |-> FALSE, playing |-> FALSE, paused |-> FALSE,
             format |-> DefaultFormat]

TransportFrame ==
    /\ RingFrame
    /\ UNCHANGED <<m_callbackRunning, m_shutdownRequested, m_currentTrackInfo, cb>>

\* variant: the track change is not announced
TrackChangeCallback_Silent(uri) == <<StateChange("PLAYING")>>

\* the track change callback: notifyTrackChange(uri, metadata);
\* notifyStateChange("PLAYING")
TrackChangeCallback(uri) == <<TrackChange(uri), StateChange("PLAYING")>>

\* variant: the end of the track is not reported
TrackEndCallback_Silent == [stopPlayback |-> TRUE, notes |-> <<>>]

\* the track end callback: stopPlayback(true); notifyStateChange("STOPPED")
TrackEndCallback == [stopPlayback |-> TRUE, notes |-> <<StateChange("STOPPED")>>]

\* the samples of track from index pos, n of them
RECURSIVE Samples(_, _, _)
Samples(track, pos, n) ==
    IF n = 0 THEN <<>>
    ELSE <<[track |-> track, idx |-> pos]>> \o Samples(track, pos + 1, n - 1)

\* stopPlayback(true)
StopPlayback(s) == [s EXCEPT !.playing = FALSE, !.paused = FALSE]

\* process(samplesNeeded) delivers samples of the current decoder
ProcessDeliver(n) ==
    /\ m_state = "PLAYING"
    /\ engine.current # 0
    /\ engine.pos < TrackLen
    /\ LET k == Min(n, TrackLen - engine.pos)
       IN /\ Len(engine.played) + k <= MaxPlayed
          /\ engine' = [engine EXCEPT !.pos = engine.pos + k,
                           !.played = engine.played \o
                                      Samples(engine.current, engine.pos, k)]
          /\ audio' = [AudioProcessIdle EXCEPT !.op = "deliver",
                           !.stateAfter = m_state,
                           !.transportAfter = upnp.transportState,
                           !.from = engine.pos, !.to = engine.pos + k]
    /\ sync' = [sync EXCEPT !.open = TRUE, !.playing = TRUE, !.paused = FALSE]
    /\ UNCHANGED <<m_state, ctl, upnp>>
    /\ TransportFrame

\* process() at the end of the current decoder with a preloaded next
\* decoder: the next decoder becomes the current one and the track change
\* callback is called
ProcessTransition ==
    /\ m_state = "PLAYING"
    /\ engine.current # 0
    /\ engine.pos = TrackLen
    /\ engine.next # 0
    /\ LET notes == TrackChangeCallback(engine.nextURI)
       IN /\ engine' = [engine EXCEPT !.current = engine.next,
                           !.currentURI = engine.nextURI,
                           !.next = 0, !.nextURI = 0, !.pos = 0]
          /\ upnp' = Notified(upnp, notes)
          /\ audio' = [AudioProcessIdle EXCEPT !.op = "transition",
                           !.sent = notes, !.stateAfter = m_state,
                           !.transportAfter = Notified(upnp, notes).transportState,
                           !.from = engine.current, !.to = engine.next,
                           !.current = engine'.current]
    /\ UNCHANGED <<m_state, ctl, sync>>
    /\ TransportFrame

\* process() at the end of the current decoder with no next decoder: the
\* track end callback is called once, and not again while draining
ProcessTrackEnd ==
    /\ m_state = "PLAYING"
    /\ engine.current # 0
    /\ engine.pos = TrackLen
    /\ engine.next = 0
    /\ IF engine.isDraining
       THEN /\ audio' = [AudioProcessIdle EXCEPT !.op = "drain",
                             !.stateAfter = m_state,
                             !.transportAfter = upnp.transportState]
            /\ UNCHANGED <<engine, upnp, sync>>
       ELSE /\ engine' = [engine EXCEPT !.isDraining = TRUE,
                             !.trackEnds = Min(engine.trackEnds + 1, 2)]
            /\ sync' = IF TrackEndCallback.stopPlayback THEN StopPlayback(sync)
                       ELSE sync
            /\ upnp' = Notified(upnp, TrackEndCallback.notes)
            /\ audio' = [AudioProcessIdle EXCEPT !.op = "trackEnd",
                             !.sent = TrackEndCallback.notes,
                             !.stateAfter = m_state,
                             !.transportAfter =
                                 Notified(upnp, TrackEndCallback.notes).transportState]
    /\ UNCHANGED <<m_state, ctl>>
    /\ TransportFrame

\* setCurrentURI: the URI is taken, the decoders are dropped and the
\* end-of-track condition is over
SetCurrentURI(e, uri) ==
    [e EXCEPT !.currentURI = uri, !.nextURI = 0, !.current = 0, !.next = 0,
              !.pos = 0, !.isDraining = FALSE, !.trackEnds = 0, !.played = <<>>]

\* callbacks.onSetURI
OnSetURI(uri) ==
    /\ LET autoStop == m_state \in {"PLAYING", "PAUSED"}
           notes == IF autoStop THEN <<StateChange("STOPPED")>> ELSE <<>>
       IN /\ m_state' = IF autoStop THEN "STOPPED" ELSE m_state
          /\ sync' = IF autoStop /\ sync.open THEN StopPlayback(sync) ELSE sync
          /\ upnp' = IF autoStop THEN Notified(upnp, notes) ELSE upnp
          /\ engine' = SetCurrentURI(engine, uri)
          /\ ctl' = [pc |-> "idle", op |-> "onSetURI", sent |-> notes,
                     playOk |-> TRUE,
                     transportBefore |-> upnp.transportState,
                     transportAfter |-> IF autoStop THEN "STOPPED"
                                        ELSE upnp.transportState]
    /\ UNCHANGED audio
    /\ TransportFrame

\* callbacks.onSetNextURI: setNextURI preloads the next decoder when a track
\* is active; preloaded tells whether the decoder could be opened
OnSetNextURI(uri, preloaded) ==
    /\ engine' = IF engine.current # 0 /\ ~engine.isDraining /\ preloaded
                 THEN [engine EXCEPT !.nextURI = uri, !.next = uri]
                 ELSE engine
    /\ ctl' = [pc |-> "idle", op |-> "onSetNextURI", sent |-> <<>>,
               playOk |-> TRUE,
               transportBefore |-> upnp.transportState,
               transportAfter |-> upnp.transportState]
    /\ UNCHANGED <<m_state, audio, upnp, sync>>
    /\ TransportFrame

\* play(): fails without a URI or when the track cannot be opened (opened
\* tells); otherwise the current decoder is open and the state is PLAYING
Play(e, opened) ==
    IF e.currentURI = 0 \/ (e.current = 0 /\ ~opened)
    THEN [ok |-> FALSE, engine |-> e]
    ELSE [ok |-> TRUE, engine |-> [e EXCEPT !.current = e.currentURI]]

\* callbacks.onPlay
OnPlay(opened) ==
    /\ LET resume == sync.open /\ sync.paused
           reopen == ~resume /\ ~sync.open /\ engine.currentURI # 0
           e == IF reopen THEN SetCurrentURI(engine, engine.currentURI) ELSE engine
           r == Play(e, opened)
           notes == <<StateChange("PLAYING")>>
       IN /\ engine' = r.engine
          /\ m_state' = IF r.ok THEN "PLAYING" ELSE m_state
          /\ sync' = IF resume THEN [sync EXCEPT !.paused = FALSE, !.playing = TRUE]
                     ELSE sync
          /\ upnp' = Notified(upnp, notes)
          /\ ctl' = [pc |-> "idle", op |-> "onPlay", sent |-> notes,
                     playOk |-> r.ok,
                     transportBefore |-> upnp.transportState,
                     transportAfter |-> Notified(upnp, notes).transportState]
    /\ UNCHANGED audio
    /\ TransportFrame

\* callbacks.onPause
OnPause ==
    /\ m_state' = IF m_state = "PLAYING" THEN "PAUSED" ELSE m_state
    /\ sync' = IF sync.playing THEN [sync EXCEPT !.paused = TRUE, !.playing = FALSE]
               ELSE sync
    /\ upnp' = Notified(upnp, <<StateChange("PAUSED_PLAYBACK")>>)
    /\ ctl' = [pc |-> "idle", op |-> "onPause",
               sent |-> <<StateChange("PAUSED_PLAYBACK")>>, playOk |-> TRUE,
               transportBefore |-> upnp.transportState,
               transportAfter |-> "PAUSED_PLAYBACK"]
    /\ UNCHANGED <<engine, audio>>
    /\ TransportFrame

\* callbacks.onStop
OnStop ==
    /\ m_state' = "STOPPED"
    /\ engine' = IF engine.currentURI # 0
                 THEN SetCurrentURI(engine, engine.currentURI)
                 ELSE engine
    /\ sync' = StopPlayback(sync)
    /\ upnp' = Notified(upnp, <<StateChange("STOPPED")>>)
    /\ ctl' = [pc |-> "idle", op |-> "onStop",
               sent |-> <<StateChange("STOPPED")>>, playOk |-> TRUE,
               transportBefore |-> upnp.transportState,
               transportAfter |-> "STOPPED"]
    /\ UNCHANGED audio
    /\ TransportFrame

InitTransport ==
    /\ RingIdle
    /\ m_callbackRunning = FALSE
    /\ m_shutdownRequested = FALSE
    /\ m_state = "STOPPED"
    /\ m_currentTrackInfo = NoTrack
    /\ engine = EngineIdle
    /\ audio = AudioProcessIdle
    /\ cb = CbIdle
    /\ ctl = CtlIdle
    /\ upnp = NoUpnp
    /\ sync = SyncIdle

NextTransport ==
    \/ \E uri \in URIs : OnSetURI(uri)
    \/ \E uri \in URIs, preloaded \in BOOLEAN : OnSetNextURI(uri, preloaded)
    \/ \E opened \in BOOLEAN : OnPlay(opened)
    \/ OnPause
    \/ OnStop
    \/ \E n \in 1..TrackLen : ProcessDeliver(n)
    \/ ProcessTransition
    \/ ProcessTrackEnd

SpecTransport == InitTransport /\ [][NextTransport]_vars

\* the notifications of one kind in a batch
OfKind(notes, kind) == SelectSeq(notes, LAMBDA note : note.kind = kind)

\* delivered samples follow one another: the next index of the same track,
\* or the first sample of a track after the last sample of the one before
NoGapNoRepeat(played) ==
    \A i \in 1..(Len(played) - 1) :
        \/ played[i + 1].track = played[i].track /\ played[i + 1].idx = played[i].idx + 1
        \/ played[i].idx = TrackLen - 1 /\ played[i + 1].idx = 0

C29_PlayFailureNotAnnounced ==
    (ctl.op = "onPlay" /\ ~ctl.playOk) =>
        /\ ctl.sent = <<>>
        /\ ctl.transportAfter = ctl.transportBefore

\* C29: onPlay has run with no URI set: play() failed, PLAYING was notified
\* and the controller reads PLAYING while the engine is STOPPED
C29_Witness ==
    /\ ctl.op = "onPlay" /\ ~ctl.playOk
    /\ engine.currentURI = 0
    /\ m_state = "STOPPED"
    /\ ctl.transportBefore = "STOPPED"
    /\ upnp.transportState = "PLAYING"
    /\ upnp.events = <<StateChange("PLAYING")>>

(***************************************************************************)
(* DirettaSync: format reconfiguration in open() against a producer in     *)
(* sendAudio and the transport worker in its pull.  sync holds the         *)
(* adapter's flags and counters, the position of the three threads         *)
(* (opener, sender, worker), what the ring last underwent (ring) and, in   *)
(* lastOpen, what the last finished open() did.                            *)
(***************************************************************************)
\* the wait for a zero-copy reference gives up after this many looks
ZeroCopyTimeout == 2
\* m_formatGeneration is followed up to this value
MaxGeneration == 2

Families == {"PCM", "DSD"}

NoOpen == [changed |-> FALSE, reconfigured |-> FALSE, forced |-> FALSE,
           genBefore |-> 0, genAfter |-> 0]

SyncReady ==
    [opener |-> "idle", sender |-> "idle", worker |-> "idle",
     m_reconfiguring |-> FALSE, m_ringUsers |-> 0,
     m_zeroCopyInUse |-> FALSE, m_zeroCopyBlocked |-> FALSE,
     m_formatGeneration |-> 0, format |-> "PCM", requested |-> "PCM",
     waited |-> 0, ring |-> "silence", lastOpen |-> NoOpen, thisOpen |-> NoOpen]

ReconfFrame ==
    /\ RingFrame
    /\ UNCHANGED <<m_callbackRunning, m_shutdownRequested, m_state,
                   m_currentTrackInfo, engine, audio, cb, ctl, upnp>>

\* beginReconfigure: new ring users are turned away
beginReconfigure(s) == [s EXCEPT !.m_reconfiguring = TRUE]

\* endReconfigure: ring users are admitted again
endReconfigure(s) == [s EXCEPT !.m_reconfiguring = FALSE]

\* ReconfigureGuard's constructor
ReconfigureGuard_Enter(s) == beginReconfigure(s)

\* variant: the guard does not release
ReconfigureGuard_Kept(s) == s

\* ReconfigureGuard's destructor
ReconfigureGuard_Exit(s) == endReconfigure(s)

\* open(format) is called: with the format unchanged it returns without a
\* reconfiguration, otherwise the guard is taken
Open(format) ==
    /\ sync.opener = "idle"
    /\ IF format = sync.format
       THEN sync' = [sync EXCEPT !.lastOpen =
                        [NoOpen EXCEPT !.genBefore = sync.m_formatGeneration,
                                       !.genAfter = sync.m_formatGeneration]]
       ELSE /\ sync.m_formatGeneration < MaxGeneration
            /\ sync' = [ReconfigureGuard_Enter(sync) EXCEPT
                           !.opener = "drain", !.requested = format,
                           !.thisOpen = [NoOpen EXCEPT !.changed = TRUE,
                                            !.reconfigured = TRUE,
                                            !.genBefore = sync.m_formatGeneration]]
    /\ ReconfFrame

\* the users already in the ring are waited for
OpenDrain ==
    /\ sync.opener = "drain"
    /\ sync.m_ringUsers = 0
    /\ sync' = [sync EXCEPT !.opener = "zerocopy", !.waited = 0]
    /\ ReconfFrame

\* blockZeroCopyAndWait: zero-copy is blocked and an outstanding reference
\* waited for, up to the timeout; then it is released by force
OpenZeroCopy ==
    /\ sync.opener = "zerocopy"
    /\ sync' = IF ~sync.m_zeroCopyInUse
               THEN [sync EXCEPT !.opener = "clear", !.m_zeroCopyBlocked = TRUE]
               ELSE IF sync.waited + 1 > ZeroCopyTimeout
                    THEN [sync EXCEPT !.opener = "clear",
                                      !.m_zeroCopyBlocked = TRUE,
                                      !.m_zeroCopyInUse = FALSE,
                                      !.waited = sync.waited + 1,
                                      !.thisOpen.forced = TRUE]
                    ELSE [sync EXCEPT !.m_zeroCopyBlocked = TRUE,
                                      !.waited = sync.waited + 1]
    /\ ReconfFrame

\* the ring is cleared
OpenClear ==
    /\ sync.opener = "clear"
    /\ sync' = [sync EXCEPT !.opener = "fill", !.ring = "cleared"]
    /\ ReconfFrame

\* the ring is filled with silence, the conversion rebound and the
\* generation bumped; or the sink refuses the format (ok is false)
OpenFill(ok) ==
    /\ sync.opener = "fill"
    /\ sync' = IF ok
               THEN [sync EXCEPT !.opener = "end", !.ring = "silence",
                                 !.format = sync.requested,
                                 !.m_formatGeneration = sync.m_formatGeneration + 1]
               ELSE [sync EXCEPT !.opener = "end", !.ring = "silence"]
    /\ ReconfFrame

\* open() returns: the guard goes out of scope; zero-copy stays blocked
\* after a forced release
OpenEnd ==
    /\ sync.opener = "end"
    /\ sync' = [ReconfigureGuard_Exit(sync) EXCEPT
                   !.opener = "idle",
                   !.m_zeroCopyBlocked = sync.thisOpen.forced,
                   !.lastOpen = [sync.thisOpen EXCEPT
                                    !.genAfter = sync.m_formatGeneration]]
    /\ ReconfFrame

OpenStep ==
    \/ OpenDrain
    \/ OpenZeroCopy
    \/ OpenClear
    \/ \E ok \in BOOLEAN : OpenFill(ok)
    \/ OpenEnd

\* a ring user (who is "sender" or "worker") enters: it is turned away while
\* reconfiguring, registers in m_ringUsers, and looks at the flag again
UserEnter(who) ==
    /\ sync[who] = "idle"
    /\ ~sync.m_reconfiguring
    /\ sync' = [sync EXCEPT ![who] = "register"]
    /\ ReconfFrame

UserRegister(who) ==
    /\ sync[who] = "register"
    /\ sync' = [sync EXCEPT ![who] = "recheck", !.m_ringUsers = sync.m_ringUsers + 1]
    /\ ReconfFrame

UserRecheck(who) ==
    /\ sync[who] = "recheck"
    /\ sync' = IF sync.m_reconfiguring
               THEN [sync EXCEPT ![who] = "idle", !.m_ringUsers = sync.m_ringUsers - 1]
               ELSE [sync EXCEPT ![who] = "ring"]
    /\ ReconfFrame

\* sendAudio writes into the ring
SendWrite ==
    /\ sync.sender = "ring"
    /\ sync' = [sync EXCEPT !.sender = "leave", !.ring = "data"]
    /\ ReconfFrame

\* the pull reads from the ring, handing out a zero-copy reference
\* (zeroCopy) unless zero-copy is blocked
PullRead(zeroCopy) ==
    /\ sync.worker = "ring"
    /\ sync' = [sync EXCEPT !.worker = "leave",
                            !.m_zeroCopyInUse =
                                \/ sync.m_zeroCopyInUse
                                \/ (zeroCopy /\ ~sync.m_zeroCopyBlocked)]
    /\ ReconfFrame

UserLeave(who) ==
    /\ sync[who] = "leave"
    /\ sync' = [sync EXCEPT ![who] = "idle", !.m_ringUsers = sync.m_ringUsers - 1]
    /\ ReconfFrame

\* the transport gives the zero-copy reference back
ZeroCopyRelease ==
    /\ sync.m_zeroCopyInUse
    /\ sync' = [sync EXCEPT !.m_zeroCopyInUse = FALSE]
    /\ ReconfFrame

\* the steps of a ring user once it has entered
UserStep ==
    \/ \E who \in {"sender", "worker"} :
          UserRegister(who) \/ UserRecheck(who) \/ UserLeave(who)
    \/ SendWrite
    \/ \E zeroCopy \in BOOLEAN : PullRead(zeroCopy)

InitReconf ==
    /\ RingIdle
    /\ m_callbackRunning = FALSE
    /\ m_shutdownRequested = FALSE
    /\ m_state = "PLAYING"
    /\ m_currentTrackInfo = NoTrack
    /\ engine = NoEngine
    /\ audio = AudioIdle
    /\ cb = CbIdle
    /\ ctl = CtlIdle
    /\ upnp = NoUpnp
    /\ sync = SyncReady

NextReconf ==
    \/ \E format \in Families : Open(format)
    \/ OpenStep
    \/ \E who \in {"sender", "worker"} : UserEnter(who)
    \/ UserStep
    \/ ZeroCopyRelease

SpecReconf == InitReconf /\ [][NextReconf]_vars

\* open() and the ring users keep running; the transport need not give a
\* reference back
SpecReconfFair == SpecReconf /\ WF_vars(OpenStep) /\ WF_vars(UserStep)

\* between beginReconfigure and endReconfigure, once the users in the ring
\* have left
Quiescent == sync.opener \in {"zerocopy", "clear", "fill", "end"}

C32_OpenBeforeSend ==
    /\ ((cb.pc = "send" \/ cb.result = "returned") /\ cb.attempts >= 1) =>
          /\ ~cb.before.playing => cb.calls = <<"open", "sendAudio">>
          /\ (cb.before.playing /\ cb.before.open
                 /\ FormatChanged(cb.before.format, cb.format))
                => cb.calls = <<"stopPlayback", "open", "sendAudio">>
          /\ (cb.before.playing /\ ~FormatChanged(cb.before.format, cb.format))
                => cb.calls = <<"sendAudio">>
          /\ ~FormatChanged(sync.format, cb.format)
          /\ sync.playing /\ sync.open
    /\ (cb.pc = "idle" /\ cb.result = "open failed") =>
          /\ cb.attempts = 0
          /\ cb.calls \in {<<"open">>, <<"stopPlayback", "open">>}

\* C32: a callback that found the adapter playing PCM has sent a DSD chunk
\* after stopPlayback and open
C32_Witness ==
    /\ cb.pc = "send" /\ cb.attempts = 1
    /\ cb.format.isDSD
    /\ cb.before.playing /\ ~cb.before.format.isDSD
    /\ cb.calls = <<"stopPlayback", "open", "sendAudio">>
    /\ sync.format = cb.format

\* C33: when the callback is not executing, whichever way it returned,
\* m_callbackRunning is false
C33_FlagClearedOnReturn ==
    cb.pc = "idle" => ~m_callbackRunning

\* C33: the callback has returned from its send loop after a sendAudio and a
\* waitForCallbackComplete begun afterwards has returned at its first look
C33_Witness ==
    /\ cb.pc = "idle" /\ cb.result = "returned" /\ cb.attempts >= 1
    /\ ~m_callbackRunning
    /\ ctl.op = "waitForCallbackComplete" /\ ctl.pc = "idle"
    /\ ctl.elapsed = 0 /\ ctl.cbAtReturn = "idle"

\* C34: after a PCM sendAudio that accepted nothing, a callback in critical
\* mode has left the loop without sleeping, with the rest of the chunk not
\* sent; one not in critical mode has slept MICROSLEEP_US and retries while
\* the retry count is below MAX_RETRIES
C34_EarlyAbandon ==
    (cb.pc = "send" /\ ~cb.format.isDSD /\ cb.attempts >= 1 /\ cb.accepted = 0) =>
        IF cb.critical
        THEN cb.slept = 0 /\ ~LoopGoesOn /\ cb.retry = 0 /\ cb.remaining > 0
        ELSE /\ cb.slept = 500
             /\ cb.retry >= 1
             /\ LoopGoesOn <=> cb.retry < 40

\* C34: a callback in critical mode has left the loop at its first attempt,
\* which accepted nothing, with the whole chunk unsent
C34_Witness ==
    /\ cb.pc = "send" /\ ~cb.format.isDSD
    /\ cb.critical /\ cb.attempts = 1 /\ cb.accepted = 0
    /\ cb.remaining = cb.samples /\ cb.samples = MaxChunkFrames
    /\ cb.result = "early return" /\ ~LoopGoesOn

C38_DsdSubFormat ==
    (/\ cb.pc = "send" \/ cb.result = "returned"
     /\ cb.attempts >= 1
     /\ cb.format.isDSD)
       => sync.format.dsdFormat = cb.format.dsdFormat

\* a chunk of a DFF track was sent without any open, by an adapter that a
\* DSF track of the same rate and channels had opened
C38_Witness ==
    /\ cb.pc = "send"
    /\ cb.attempts >= 1
    /\ cb.format.isDSD
    /\ cb.format.dsdFormat = "DFF"
    /\ cb.before.playing /\ cb.before.open
    /\ cb.before.format.isDSD
    /\ cb.before.format.dsdFormat = "DSF"
    /\ cb.calls = <<"sendAudio">>
    /\ sync.format.dsdFormat = "DSF"

(***************************************************************************)
(* SpecHint: the delivery callback's S24 hint propagation.  Tracks of one   *)
(* 24-bit format are delivered chunk by chunk to a ring of AlignRingSize    *)
(* bytes; each track carries the alignment its decoder found and samples    *)
(* of one alignment.  The callback opens the adapter when it is not         *)
(* playing, passes the hint after an open, and sends the chunk, which the   *)
(* adapter packs with push24BitPacked.  A stop ends playback between two    *)
(* chunks; without one the next track follows gaplessly.  seq counts the    *)
(* chunks sent.                                                            *)
(***************************************************************************)
HintTracks ==
    {[uri |-> 1, s24Alignment |-> "LsbAligned", pat |-> "lsb"],
     [uri |-> 2, s24Alignment |-> "MsbAligned", pat |-> "msb"],
     [uri |-> 3, s24Alignment |-> "Unknown", pat |-> "msb"]}

HintChunkSamples == 33

Format24 == CHOOSE f \in Formats : f.bitDepth = 24

\* no chunk delivered yet
HintIdle == [pc |-> "idle", result |-> "none", uri |-> 0, fresh |-> FALSE,
             consumed |-> 0, opened |-> FALSE, hinted |-> FALSE,
             confirmedBefore |-> FALSE, pat |-> "zero",
             s24Alignment |-> "Unknown"]

HintFrame ==
    UNCHANGED <<phase, script, chunks, threadVars, convVars, m_callbackRunning,
                m_shutdownRequested, m_state, m_currentTrackInfo, engine,
                audio, ctl, upnp>>

HintRingKept == UNCHANGED <<ringVars, obsVars>>

\* process() invokes the callback with a chunk of track t; fresh: none of
\* the track's samples has been packed so far
HintInvoke(t) ==
    /\ cb.pc = "idle"
    /\ seq < MaxHintChunks
    /\ cb' = [cb EXCEPT !.pc = "open", !.result = "none", !.uri = t.uri,
                        !.fresh = (t.uri # cb.uri) \/ (cb.fresh /\ cb.consumed = 0),
                        !.consumed = 0, !.opened = FALSE, !.hinted = FALSE,
                        !.pat = t.pat, !.s24Alignment = t.s24Alignment]
    /\ UNCHANGED <<sync, seq>>
    /\ HintRingKept
    /\ HintFrame

\* the open decision; open() resets the ring when it reconfigures, and may
\* or may not when the format family is the one it already has
HintOpen(openOk, reset) ==
    /\ cb.pc = "open"
    /\ LET plan == OpenPlan(sync, Format24)
           reconfigures == ~sync.open \/ FormatChanged(sync.format, Format24)
       IN IF ~plan.open
          THEN /\ cb' = [cb EXCEPT !.pc = "send"]
               /\ UNCHANGED sync
               /\ HintRingKept
          ELSE IF ~openOk
          THEN /\ cb' = [cb EXCEPT !.pc = "idle", !.result = "open failed"]
               /\ sync' = [sync EXCEPT !.playing = FALSE]
               /\ HintRingKept
          ELSE /\ reconfigures => reset
               /\ cb' = [cb EXCEPT !.opened = TRUE,
                                   !.pc = IF cb.s24Alignment \in AlignHints
                                          THEN "hint" ELSE "send"]
               /\ sync' = [open |-> TRUE, playing |-> TRUE, format |-> Format24]
               /\ IF reset THEN Clear ELSE HintRingKept
    /\ UNCHANGED seq
    /\ HintFrame

\* after open(): setS24PackModeHint with the track's alignment
HintPropagate ==
    /\ cb.pc = "hint"
    /\ SetS24PackModeHint(cb.s24Alignment)
    /\ cb' = [cb EXCEPT !.pc = "send", !.hinted = TRUE]
    /\ UNCHANGED <<sync, seq>>
    /\ HintFrame

\* sendAudio packs the chunk
HintSend ==
    /\ cb.pc = "send"
    /\ \E d \in {AlignData(cb.pat, HintChunkSamples)} : Push24BitPacked(d)
    /\ cb' = [cb EXCEPT !.pc = "idle", !.result = "returned",
                        !.consumed = call'.ret \div 4,
                        !.confirmedBefore = m_s24DetectionConfirmed]
    /\ seq' = seq + 1
    /\ UNCHANGED sync
    /\ HintFrame

\* the adapter's worker takes the packed bytes out
HintPop ==
    /\ cb.pc = "idle"
    /\ writePos_ # readPos_
    /\ Pop(3 * HintChunkSamples)
    /\ UNCHANGED <<cb, sync, seq>>
    /\ HintFrame

\* onStop between two chunks: stopPlayback(true)
HintStop ==
    /\ cb.pc = "idle"
    /\ sync.playing
    /\ sync' = [sync EXCEPT !.playing = FALSE]
    /\ UNCHANGED <<cb, seq>>
    /\ HintRingKept
    /\ HintFrame

InitHint ==
    /\ InitObs /\ InitThreads /\ InitConvVars
    /\ AfterSilence("Unknown", 0)
    /\ seq = 0
    /\ script = NoScript
    /\ chunks = <<>>
    /\ m_callbackRunning = FALSE
    /\ m_shutdownRequested = FALSE
    /\ m_state = "STOPPED"
    /\ m_currentTrackInfo = NoTrack
    /\ engine = NoEngine
    /\ audio = AudioIdle
    /\ ctl = CtlIdle
    /\ upnp = NoUpnp
    /\ cb = HintIdle
    /\ sync = SyncClosed

NextHint ==
    \/ \E t \in HintTracks : HintInvoke(t)
    \/ \E openOk \in BOOLEAN, reset \in BOOLEAN : HintOpen(openOk, reset)
    \/ HintPropagate
    \/ HintSend
    \/ HintPop
    \/ HintStop

SpecHint == InitHint /\ [][NextHint]_vars

\* C39: when the first samples of a new track have been packed, the ring's
\* alignment detection had been re-armed since the previous track: it was
\* not in the confirmed state the previous track left
C39_RearmedOnTrackChange ==
    (cb.result = "returned" /\ cb.fresh /\ cb.consumed > 0) => ~cb.confirmedBefore

\* the first chunk of an MSB-aligned track followed an LSB-aligned track
\* gaplessly: no open, no hint, and its samples were packed as LsbAligned
C39_Witness ==
    /\ cb.result = "returned" /\ cb.pc = "idle"
    /\ cb.fresh /\ cb.consumed = HintChunkSamples
    /\ ~cb.opened /\ ~cb.hinted
    /\ cb.confirmedBefore
    /\ cb.pat = "msb"
    /\ m_s24PackMode = "LsbAligned"
    /\ sync.playing

(***************************************************************************)
(* The cadence loop: chunk, period and wake-up time (SpecChunk)             *)
(***************************************************************************)
\* the tier of a sample rate and DSD flag, in samples
TierChunk(sampleRate, isDSD) ==
    IF isDSD THEN 32768
    ELSE IF sampleRate <= 48000 THEN 2048
    ELSE IF sampleRate <= 96000 THEN 4096
    ELSE 8192

SteadyIteration == audio.pc = "loop" /\ audio.ran /\ ~audio.reselected

PlanarSource(j, inputSize, numChannels) ==
    ((j \div 4) % numChannels) * (inputSize \div numChannels)
        + 4 * (j \div (4 * numChannels)) + (j % 4)

\* the last call was a pushDSDPlanar that wrote bytes
DsdPushed == phase = "pushed" /\ script.op = "pushDSDPlanar" /\ call.ret > 0

\* the byte the push wrote at position j of its output
DsdWritten(j) == BufAt((writePos_ + size_ - call.ret + j) % size_)

\* C37: every byte pushDSDPlanar wrote in a frame of channel c is the byte of
\* channel c's block of the input, the blocks starting at c * inputSize / C,
\* and what it wrote are the leading bytes of each block, whether the whole
\* input was taken or the push was clamped
C37_ChannelsKeptApart ==
    DsdPushed =>
        \A j \in 0..(call.ret - 1) :
            DsdWritten(j) = data[PlanarSource(j, Len(data), script.ch) + 1]

\* a stereo push of 768 bytes was clamped by the ring's free space, and the
\* first frame of the right channel holds a byte of the left channel's block
C37_Witness ==
    /\ DsdPushed
    /\ script.ch = 2 /\ Len(data) = 768
    /\ call.ret < 768
    /\ DsdWritten(4) = data[(call.ret \div 2) + 1]
    /\ DsdWritten(4) # data[384 + 1]

(***************************************************************************)
(* SpecStop: onStop against the audio thread.  The audio thread reads the   *)
(* engine state and, when it is PLAYING, calls process(), which invokes the *)
(* delivery callback once.  The control thread runs onStop: engine stop(),  *)
(* waitForCallbackComplete(), stopPlayback(true); a later onPlay starts the *)
(* engine again.  engine holds onStop's position and what it found.         *)
(***************************************************************************)
StopIdle == [pc |-> "idle", stopped |-> FALSE, cbAtStop |-> "none"]

\* the control thread outside waitForCallbackComplete
NotWaiting == [pc |-> "idle", op |-> "none", elapsed |-> 0, timedOut |-> FALSE,
               cbAtReturn |-> "none"]

\* the chunk process() delivers: the smallest chunk of 16-bit stereo PCM
StopFormat == CHOOSE f \in Formats : f.bitDepth = 16

\* audioThreadFunc: the state check
StopLoopRead ==
    /\ audio.pc = "loop"
    /\ cb.pc = "idle"
    /\ audio' = [audio EXCEPT !.state = m_state,
                              !.pc = IF m_state = "PLAYING" THEN "process" ELSE "loop"]
    /\ cb' = CbIdle
    /\ UNCHANGED <<m_callbackRunning, m_shutdownRequested, m_state,
                   m_currentTrackInfo, engine, ctl, upnp, sync>>
    /\ RingFrame

\* process() has decoded a chunk and invokes the callback
StopInvoke ==
    /\ audio.pc = "process"
    /\ cb.result = "none"
    /\ CbInvoke(StopFormat, 1)

\* process() returns to the loop
StopProcessReturn ==
    /\ audio.pc = "process"
    /\ cb.pc = "idle" /\ cb.result # "none"
    /\ audio' = [audio EXCEPT !.pc = "loop", !.arg = 1]
    /\ UNCHANGED <<m_callbackRunning, m_shutdownRequested, m_state,
                   m_currentTrackInfo, engine, cb, ctl, upnp, sync>>
    /\ RingFrame

\* onStop: m_audioEngine->stop()
OnStopBegin ==
    /\ engine.pc = "idle"
    /\ m_state = "PLAYING"
    /\ m_state' = "STOPPED"
    /\ engine' = [StopIdle EXCEPT !.pc = "wait"]
    /\ ctl' = NotWaiting
    /\ UNCHANGED <<m_callbackRunning, m_shutdownRequested, m_currentTrackInfo,
                   audio, cb, upnp, sync>>
    /\ RingFrame

\* onStop: waitForCallbackComplete()
OnStopWait ==
    /\ engine.pc = "wait"
    /\ \/ ctl.op = "none" /\ WaitBegin
       \/ WaitStep

\* onStop: m_direttaSync->stopPlayback(true), once the wait has returned
OnStopPlayback ==
    /\ engine.pc = "wait"
    /\ ctl.op = "waitForCallbackComplete" /\ ctl.pc = "idle"
    /\ sync' = [sync EXCEPT !.playing = FALSE]
    /\ engine' = [pc |-> "idle", stopped |-> TRUE, cbAtStop |-> cb.pc]
    /\ UNCHANGED <<m_callbackRunning, m_shutdownRequested, m_state,
                   m_currentTrackInfo, audio, cb, ctl, upnp>>
    /\ RingFrame

\* onPlay: m_audioEngine->play()
OnPlayAgain ==
    /\ engine.pc = "idle"
    /\ m_state = "STOPPED"
    /\ m_state' = "PLAYING"
    /\ engine' = StopIdle
    /\ ctl' = NotWaiting
    /\ UNCHANGED <<m_callbackRunning, m_shutdownRequested, m_currentTrackInfo,
                   audio, cb, upnp, sync>>
    /\ RingFrame

InitStop ==
    /\ RingIdle
    /\ m_callbackRunning = FALSE
    /\ m_shutdownRequested = FALSE
    /\ m_state = "PLAYING"
    /\ m_currentTrackInfo = NoTrack
    /\ engine = StopIdle
    /\ audio = AudioIdle
    /\ cb = CbIdle
    /\ ctl = NotWaiting
    /\ upnp = NoUpnp
    /\ sync = SyncClosed

NextStop ==
    \/ StopLoopRead
    \/ StopInvoke
    \/ CbStep
    \/ StopProcessReturn
    \/ OnStopBegin
    \/ OnStopWait
    \/ OnStopPlayback
    \/ OnPlayAgain

SpecStop == InitStop /\ [][NextStop]_vars

\* onStop has called stopPlayback(true) after a wait that did not time out,
\* and play() has not been called since
StoppedQuietly == engine.stopped /\ ~ctl.timedOut

\* C35: once onStop's stop() and waitForCallbackComplete() have returned
\* without a timeout, no callback invocation is in its open / sendAudio part
\* when stopPlayback(true) is called or after it, until the next play()
C35_StopRaceFree ==
    StoppedQuietly =>
        /\ ~PastEntryCheck(engine.cbAtStop)
        /\ ~PastEntryCheck(cb.pc)

\* the loop had read PLAYING before stop(); the wait found no callback
\* running and returned; the callback then started, passed its entry check,
\* opened the adapter that stopPlayback(true) had stopped, and sent audio
C35_Witness ==
    /\ StoppedQuietly
    /\ m_state = "STOPPED"
    /\ ctl.elapsed = 0
    /\ engine.cbAtStop = "idle"
    /\ cb.pc = "send" /\ cb.attempts >= 1
    /\ ~cb.before.playing
    /\ cb.calls = <<"open", "sendAudio">>
    /\ sync.playing

====
